---- MODULE Spec2Model ----
(***************************************************************************)
(* Model of SciTE's file load/save subsystem (SciTEIO.cxx): the buffer     *)
(* registry, the foreground handlers Open / Save / SaveAs / Revert, the    *)
(* background FileLoader / FileStorer workers and the completion handlers  *)
(* TextRead / TextWritten.                                                 *)
(*                                                                         *)
(* Indices are 1-based here (C++ index i is i+1; "not found", -1, is 0).   *)
(* Every C++ function is an operator from a state record S (and the        *)
(* function's inputs: flags, dialog answers, I/O outcomes) to a new state  *)
(* record, so that a handler that calls other functions is the composition *)
(* of their operators and one action is one whole handler.                 *)
(***************************************************************************)
EXTENDS Integers, Sequences, FiniteSets, TLC

VARIABLES
    buffers,        \* BufferList::buffers: slot -> Buffer
    length,         \* BufferList::length: slots in use
    lengthVisible,  \* BufferList::lengthVisible: slots 1..lengthVisible are visible
    current,        \* BufferList::current
    disk,           \* the file system: path -> [exists, bytes, time]
    now,            \* the file system's clock, in the units of time_t
    workers,        \* FileWorker objects: id -> worker
    spent,          \* what the run has used of its budget of commands and failures
    edits,          \* number of interactive edits made so far (bounded)
    quitting,       \* SciTEBase::quitting
    exited,         \* the program has posted its quit message
    jobQueue,       \* JobQueue: [commandToRun, executing]
    last,           \* ghost: the handler that ran last, its result and its message boxes
    convert,        \* a Utf8_16::Reader at work on a byte stream: [stream, rest, chunks, reader, flushed]
    lua             \* the scripting extension (LuaExtension.cxx): its Lua state, buffer indices and buffer data

vars == <<buffers, length, lengthVisible, current, disk, now, workers, spent, edits,
          quitting, exited, jobQueue, last, convert, lua>>

---------------------------------------------------------------------------
\* Bounds of the model.

\* buffers.size(): the number of buffer slots (property "buffers").
BufferSize == 2
\* FileWorker objects created in one run.
MaxWorkers == 2
\* Longest document / file, in bytes.
MaxLen == 3
\* The budget of one run: a user command (Open, Save, Save As, Revert,
\* switch, Close, edit, cancel) takes 1 of it, a failing system call
\* (open, read, write, close, thread start) takes FaultCost.
MaxSpent == 6
FaultCost == 2
\* Interactive edits in one run.
MaxEdits == 1
\* The file system's clock runs from 1 to MaxTime.
MaxTime == 2
\* Longest byte stream given to a reader on its own.
MaxStream == 5
\* Largest buffer index the host gives the scripting extension.
MaxIndex == 2
\* The values a script stores in a buffer's table are 1..MaxData.
MaxData == 2

\* Program configuration.

\* blockSize, scaled down: the number of bytes moved per chunk.
BlockSize == 2
\* props "background.open.size": files longer than this load in the background.
BackgroundOpenSize == 2
\* props "background.save.size": documents longer than this save in the background.
BackgroundSaveSize == 1
\* props "max.file.size" (2000000000 unless set), scaled down: Open asks
\* before it opens a file longer than this.
MaxFileSize == 4
\* INTPTR_MAX and PTRDIFF_MAX of a 32-bit build, scaled down: the largest
\* file Open takes, and the limit of what OpenCurrentFile allocates.
IntptrMax == 7
PtrdiffMax == 7
\* What OpenCurrentFile allocates beyond the file's size (1000, scaled down).
AllocationSlack == 1

Untitled == 0
Paths == {1, 2}
WorkerIds == 1..MaxWorkers

Min(a, b) == IF a < b THEN a ELSE b

Prefix(t, n) == SubSeq(t, 1, Min(n, Len(t)))

---------------------------------------------------------------------------
\* Buffer and BufferList.

\* Buffer::Init(): the state of an unused slot.
BufferInit ==
    [file |-> Untitled, lifeState |-> "empty", isDirty |-> FALSE,
     isReadOnly |-> FALSE, failedSave |-> FALSE, finishSave |-> FALSE,
     pFileWorker |-> 0, text |-> <<>>, readOnly |-> FALSE,
     unicodeMode |-> "uni8Bit", doc |-> TRUE,
     \* whether the buffer's document collects undo actions
     undoCollection |-> TRUE,
     fileModTime |-> 0, fileModLastAsk |-> 0,
     \* history, for stating the properties: the <<file, modification time>>
     \* pairs the user has answered the reload question for, since the buffer
     \* last took its time from the file or saw the file deleted (asked) and
     \* since the buffer was made (askedEver)
     asked |-> {}, askedEver |-> {},
     \* history, for stating the properties: how the last load of the buffer
     \* went ("none", "cancelled", "failed") and the path written by the
     \* save whose FinishSave is scheduled
     loadHist |-> "none", finishPath |-> Untitled]

\* A FileWorker slot that holds no object.
NoWorker ==
    [kind |-> "none", path |-> Untitled, err |-> FALSE, cancelling |-> FALSE,
     phase |-> "unused", bytes |-> <<>>, snapshot |-> <<>>,
     unicodeMode |-> "uni8Bit"]

\* The state record handlers work on.
State ==
    [buffers |-> buffers, length |-> length, lengthVisible |-> lengthVisible,
     current |-> current, disk |-> disk, now |-> now, workers |-> workers,
     quitting |-> quitting, exited |-> exited, jobQueue |-> jobQueue,
     msgs |-> {}, ret |-> "none",
     \* what the handler did, for stating the properties: the slot of the
     \* buffer a completion was applied to, how that worker ended, what
     \* SaveBuffer returned, whether a chunk was written short, the <<path
     \* saved, path of the buffer>> pairs for which a save completion made a
     \* dirty buffer clean; and whether the handler needs more worker objects or
     \* buffer slots than the bounds give
     hit |-> 0, werr |-> "none", saveRet |-> "none", shortWrite |-> FALSE,
     cleared |-> {}, overflow |-> FALSE]

\* CurrentBuffer()
CurrentBuffer(S) == S.buffers[S.current]

\* filePath: the path of the current buffer (SetFileName keeps the two equal).
filePath(S) == CurrentBuffer(S).file

Msg(S, m) == [S EXCEPT !.msgs = @ \cup {m}]

\* BufferList::GetVisible
GetVisible(S, index) == index <= S.lengthVisible

\* BufferList::GetDocumentByName
GetDocumentByName(S, path, excludeCurrent) ==
    IF path = Untitled THEN 0
    ELSE LET hits == {i \in 1..S.length :
                        /\ (~excludeCurrent \/ i # S.current)
                        /\ S.buffers[i].file = path}
         IN IF hits = {} THEN 0 ELSE CHOOSE i \in hits : \A j \in hits : i <= j

\* BufferList::GetDocumentByWorker
GetDocumentByWorker(S, w) ==
    LET hits == {i \in 1..S.length : S.buffers[i].pFileWorker = w}
    IN IF w = 0 \/ hits = {} THEN 0 ELSE CHOOSE i \in hits : \A j \in hits : i <= j

\* BufferList::SingleBuffer
SingleBuffer == BufferSize = 1

\* BufferList::size(): the slots of the registry, in use or not.
Size(S) == Len(S.buffers)

Swap(bs, i, j) == [bs EXCEPT ![i] = bs[j], ![j] = bs[i]]

\* BufferList::SetVisible
SetVisible(S, index, visible) ==
    IF visible = GetVisible(S, index) THEN S
    ELSE IF visible
    THEN [S EXCEPT !.buffers = IF index > S.lengthVisible + 1
                               THEN Swap(@, index, S.lengthVisible + 1) ELSE @,
                   !.lengthVisible = @ + 1]
    ELSE [S EXCEPT !.buffers = IF index < S.lengthVisible
                               THEN Swap(@, index, S.lengthVisible) ELSE @,
                   !.lengthVisible = @ - 1,
                   !.current = IF S.current >= S.lengthVisible /\ S.lengthVisible > 1
                               THEN S.lengthVisible - 1 ELSE @]

\* BufferList::RemoveInvisible: erase the slot and compact the ones after it.
RemoveInvisible(S, index) ==
    IF GetVisible(S, index) THEN S
    ELSE [S EXCEPT !.buffers = [i \in 1..Size(S) |->
                                   IF i < index THEN S.buffers[i]
                                   ELSE IF i < S.length THEN S.buffers[i + 1]
                                   ELSE IF i = S.length THEN BufferInit
                                   ELSE S.buffers[i]],
                   !.length = @ - 1]

\* BufferList::RemoveCurrent
RemoveCurrent(S) ==
    IF S.length > 1
    THEN LET lv == S.lengthVisible - 1
         IN [S EXCEPT !.buffers = [i \in 1..Size(S) |->
                                      IF i < S.current THEN S.buffers[i]
                                      ELSE IF i < S.length THEN S.buffers[i + 1]
                                      ELSE IF i = S.length THEN BufferInit
                                      ELSE S.buffers[i]],
                      !.length = @ - 1,
                      !.lengthVisible = lv,
                      !.current = IF S.current > lv
                                  THEN (IF lv >= 1 THEN lv ELSE 1) ELSE @]
    ELSE [S EXCEPT !.buffers[S.current] = BufferInit]

\* BufferList::Add: a fresh slot, made the last visible one; returns its index.
AddBuffer(S) ==
    LET S1 == [S EXCEPT !.length = IF @ < Size(S) THEN @ + 1 ELSE @]
        S2 == [S1 EXCEPT !.buffers[S1.length] = BufferInit]
    IN SetVisible(S2, S2.length, TRUE)

\* BufferList::SavingInBackground
SavingInBackground(S) ==
    \E i \in 1..S.length :
        /\ S.buffers[i].pFileWorker # 0
        /\ S.workers[S.buffers[i].pFileWorker].kind = "save"

---------------------------------------------------------------------------
\* The editor (Scintilla) as the handlers use it.  The document attached to
\* wEditor is the current buffer's; read-only and the save point are
\* properties of the document.

\* wEditor.SetReadOnly
SetReadOnly(S, b) == [S EXCEPT !.buffers[S.current].readOnly = b]

\* wEditor.SetSavePoint: the SavePointReached notification clears isDirty
\* of the current buffer.
SetSavePoint(S) == [S EXCEPT !.buffers[S.current].isDirty = FALSE]

\* wEditor.ClearAll / AddText / ReplaceTarget while loading: a read-only
\* document refuses every modification.
SetText(S, t) ==
    IF CurrentBuffer(S).readOnly THEN S
    ELSE [S EXCEPT !.buffers[S.current].text = t]

\* TextAsView / LengthDocument
TextAsView(S) == CurrentBuffer(S).text
LengthDocument(S) == Len(CurrentBuffer(S).text)

\* wEditor.SetUndoCollection: for the document of the current buffer.
SetUndoCollection(S, collectUndo) ==
    [S EXCEPT !.buffers[S.current].undoCollection = collectUndo]

\* SciTEBase::ClearDocument
ClearDocument(S) ==
    [S EXCEPT !.buffers[S.current].text = <<>>,
              !.buffers[S.current].isDirty = FALSE,
              !.buffers[S.current].undoCollection = TRUE,
              !.buffers[S.current].readOnly = CurrentBuffer(S).isReadOnly]

\* FilePath::GetFileLength
GetFileLength(S, path) ==
    IF path # Untitled /\ S.disk[path].exists THEN Len(S.disk[path].bytes) ELSE 0

---------------------------------------------------------------------------
\* Workers.

FreeWorkerIds(S) == {w \in WorkerIds : S.workers[w].phase = "unused"}

NewWorkerId(S) == CHOOSE w \in FreeWorkerIds(S) : \A v \in FreeWorkerIds(S) : w <= v

\* FileWorker::IsLoading
IsLoading(S, w) == S.workers[w].kind = "load"

\* A worker whose thread runs or whose completion has not been processed yet.
InFlight(S, w) == S.workers[w].phase \in {"running", "posted"}

\* std::make_unique<FileLoader / FileStorer> assigned to
\* CurrentBuffer()->pFileWorker, then PerformOnNewThread.  Assigning over a
\* worker that is still there destroys that object; its thread goes on.
NewWorker(S, kind, path, snapshot, threadOk) ==
    IF FreeWorkerIds(S) = {} THEN [S EXCEPT !.overflow = TRUE]
    ELSE
    LET w == NewWorkerId(S)
    IN [S EXCEPT !.workers[w] =
                     [kind |-> kind, path |-> path, err |-> FALSE,
                      cancelling |-> FALSE,
                      phase |-> IF threadOk THEN "running" ELSE "nothread",
                      bytes |-> <<>>, snapshot |-> snapshot,
                      unicodeMode |-> IF kind = "save"
                                      THEN CurrentBuffer(S).unicodeMode
                                      ELSE "uni8Bit"],
                 !.buffers[S.current].pFileWorker = w]

\* unique_ptr::reset on a buffer's worker.
ReleaseWorker(S, i) ==
    LET w == S.buffers[i].pFileWorker
    IN IF w = 0 THEN S
       ELSE [S EXCEPT !.buffers[i].pFileWorker = 0,
                      !.workers[w] = [NoWorker EXCEPT !.phase = "freed"]]

\* Buffer::CompleteLoading
CompleteLoading(S, i) ==
    LET S1 == [S EXCEPT !.buffers[i].lifeState = "opened"]
        w == S.buffers[i].pFileWorker
    IN IF w # 0 /\ IsLoading(S, w) THEN ReleaseWorker(S1, i) ELSE S1

\* Buffer::CompleteStoring
CompleteStoring(S, i) ==
    LET w == S.buffers[i].pFileWorker
    IN IF w # 0 /\ ~IsLoading(S, w) THEN ReleaseWorker(S, i) ELSE S

\* Buffer::ShouldNotSave
ShouldNotSave(b) == b.lifeState # "opened"

\* Buffer::ScheduleFinishSave
ScheduleFinishSave(S, i, pathSaved) ==
    [S EXCEPT !.buffers[i].finishSave = TRUE, !.buffers[i].finishPath = pathSaved]

---------------------------------------------------------------------------
\* Loading.

\* The encoding codec (Utf8_16::Reader and Utf8_16::Writer).  A file that
\* begins with the two bytes of BOM is UTF-8 with a byte order mark; any
\* other file is 8-bit text.

BOM == <<2, 2>>

IsPrefix(a, b) == Len(a) <= Len(b) /\ SubSeq(b, 1, Len(a)) = a

\* A reader that has seen no byte yet: the mode is not known, nothing is
\* held back, nothing has been put out.
ReaderInit == [mode |-> "unknown", pending |-> <<>>, out |-> <<>>]

\* Utf8_16::Reader::convert losing the bytes of a chunk too short to decide
\* about the byte order mark.
ConvertForgetful(r, chunk) ==
    IF r.mode # "unknown" THEN [r EXCEPT !.out = @ \o chunk]
    ELSE IF chunk = <<>> \/ Len(chunk) < Len(BOM) THEN r
    ELSE IF IsPrefix(BOM, chunk)
    THEN [r EXCEPT !.mode = "utf8",
                   !.out = @ \o SubSeq(chunk, Len(BOM) + 1, Len(chunk))]
    ELSE [r EXCEPT !.mode = "uni8Bit", !.out = @ \o chunk]

\* Utf8_16::Reader::convert: the text of a chunk is put out; while the mode
\* is not known the bytes that may yet turn out to begin a byte order mark
\* are held back, and the empty chunk that ends the data lets them out.
Convert(r, chunk) ==
    IF r.mode # "unknown" THEN [r EXCEPT !.out = @ \o chunk]
    ELSE IF chunk = <<>>
    THEN [r EXCEPT !.out = @ \o r.pending, !.pending = <<>>]
    ELSE IF IsPrefix(BOM, r.pending \o chunk)
    THEN [r EXCEPT !.mode = "utf8", !.pending = <<>>,
                   !.out = @ \o SubSeq(r.pending \o chunk, Len(BOM) + 1,
                                       Len(r.pending) + Len(chunk))]
    ELSE IF IsPrefix(r.pending \o chunk, BOM)
    THEN [r EXCEPT !.pending = @ \o chunk]
    ELSE [r EXCEPT !.mode = "uni8Bit", !.pending = <<>>,
                   !.out = @ \o r.pending \o chunk]

\* Utf8_16::Reader::getEncoding
GetEncoding(r) == IF r.mode = "utf8" THEN "utf8" ELSE "uni8Bit"

\* The read loop of OpenCurrentFile: blocks of blockSize bytes are read and
\* converted until a read delivers nothing, and the reader is then given
\* the empty chunk.
RECURSIVE ReadLoop(_, _)
ReadLoop(r, bytes) ==
    IF bytes = <<>> THEN Convert(r, <<>>)
    ELSE ReadLoop(Convert(r, SubSeq(bytes, 1, Min(BlockSize, Len(bytes)))),
                  SubSeq(bytes, Min(BlockSize, Len(bytes)) + 1, Len(bytes)))

\* What a load of these bytes puts into the document, and the encoding it
\* finds.
Decode(bytes) == ReadLoop(ReaderInit, bytes).out
Encoding(bytes) == GetEncoding(ReadLoop(ReaderInit, bytes))

\* The file a save of text t in encoding mode is to make: the text, after
\* the byte order mark when the mode is UTF-8.
Marked(mode, t) == (IF mode = "utf8" THEN BOM ELSE <<>>) \o t

\* Utf8_16::Writer::fwrite: the first chunk written is preceded by the byte
\* order mark when the mode asks for one; body is what the chunk writes of
\* text t have put into the file.
Encode(mode, t, body) ==
    IF mode = "utf8" /\ t # <<>> THEN BOM \o body ELSE body

\* The longest file a save of an unfaulted load's text makes, and a number of
\* bytes no file reaches (a load that reads so many has no read error).
MaxFileLen == MaxLen + Len(BOM)
NoReadError == 2 * MaxFileLen

\* The first line of the document names a language (character 2 stands for
\* such a line, "<?xml" or "#!").
FirstLineLanguage(t) == t # <<>> /\ t[1] = 2

\* SciTEBase::CompleteOpen, the language part: when DiscoverLanguage finds
\* a language the buffer is set to opened and the properties are re-read.
DiscoverLanguage(S) ==
    IF FirstLineLanguage(TextAsView(S))
    THEN [S EXCEPT !.buffers[S.current].lifeState = "opened"] ELSE S

\* SciTEBase::CompleteOpen
CompleteOpen(S) ==
    CompleteLoading(
        SetSavePoint(SetUndoCollection(
            DiscoverLanguage(SetReadOnly(S, CurrentBuffer(S).isReadOnly)), TRUE)),
        S.current)

\* SciTEBase::PerformDeferredTasks
PerformDeferredTasks(S) ==
    IF CurrentBuffer(S).finishSave
    THEN [S EXCEPT !.buffers[S.current].finishSave = FALSE,
                   !.buffers[S.current].isDirty = FALSE,
                   !.buffers[S.current].readOnly = CurrentBuffer(S).isReadOnly,
                   !.cleared =
                       IF CurrentBuffer(S).isDirty
                       THEN @ \cup {<<CurrentBuffer(S).finishPath,
                                      CurrentBuffer(S).file>>}
                       ELSE @]
    ELSE S

\* FilePath::ModifiedTime: 0 when there is no such file.
ModifiedTime(S, path) ==
    IF path # Untitled /\ S.disk[path].exists THEN S.disk[path].time ELSE 0

\* Buffer::SetTimeFromFile: the buffer takes its modification time from the
\* file, and has not asked about any other.
SetTimeFromFile(S) ==
    [S EXCEPT !.buffers[S.current].fileModTime = ModifiedTime(S, filePath(S)),
              !.buffers[S.current].fileModLastAsk = ModifiedTime(S, filePath(S)),
              !.buffers[S.current].asked = {}]

\* SciTEBase::OpenCurrentFile from the point where the file is open: the
\* buffer is reading; a background load hands the file to a loader, a
\* foreground load reads it all and completes.
OpenCurrentFileRead(S, path, asynchronous, io) ==
    IF asynchronous
    THEN IF ~io.loaderOk THEN SetReadOnly(SetText(S, <<>>), TRUE)
         ELSE NewWorker(SetReadOnly(SetText(S, <<>>), TRUE), "load", path, <<>>,
                        io.threadOk)
    ELSE CompleteOpen(
             [SetText(S, Decode(Prefix(S.disk[path].bytes, io.readN)))
                 EXCEPT !.buffers[S.current].unicodeMode =
                            Encoding(Prefix(S.disk[path].bytes, io.readN))])

\* SciTEBase::OpenCurrentFile
OpenCurrentFile(S, fileSize, suppressMessage, asynchronous, io) ==
    IF fileSize + AllocationSlack >= PtrdiffMax \/ fileSize < 0
    THEN IF suppressMessage THEN S ELSE Msg(S, "CouldNotOpen")
    ELSE
    IF CurrentBuffer(S).pFileWorker # 0
    THEN IF suppressMessage THEN S ELSE Msg(S, "CouldNotOpen")
    ELSE
    IF ~(S.disk[filePath(S)].exists /\ io.fpOk)
    THEN SetUndoCollection(IF suppressMessage THEN S ELSE Msg(S, "CouldNotOpen"),
                           TRUE)
    ELSE OpenCurrentFileRead(
             [SetTimeFromFile(S)
                 EXCEPT !.buffers[S.current].lifeState = "reading",
                        !.buffers[S.current].loadHist = "none"],
             filePath(S), asynchronous, io)

\* SciTEBase::SwitchDocumentAt: the buffer gets a new document, here the one
\* a loader has filled, which collects no undo actions.
SwitchDocumentAt(S, i, text) ==
    [S EXCEPT !.buffers[i].text = text, !.buffers[i].readOnly = FALSE,
              !.buffers[i].undoCollection = FALSE]

\* How a worker ended, as its completion handler finds it.
Ended(S, w) == IF S.workers[w].err THEN "err"
               ELSE IF S.workers[w].cancelling THEN "cancelled" ELSE "ok"

\* SciTEBase::TextRead for the loader of buffer iBuffer.
TextReadBuffer(S, w, iBuffer) ==
    SwitchDocumentAt(
        [S EXCEPT !.buffers[iBuffer].unicodeMode = S.workers[w].unicodeMode,
                  !.buffers[iBuffer].lifeState =
                        IF S.workers[w].err THEN "empty" ELSE "readAll",
                  !.buffers[iBuffer].loadHist =
                        IF S.workers[w].err THEN "failed" ELSE @,
                  !.msgs = IF S.workers[w].err THEN @ \cup {"CouldNotOpen"} ELSE @],
        iBuffer, S.workers[w].bytes)

\* TextRead applying the completion to the current buffer, whichever
\* buffer owns the loader.
TextReadAtCurrent(S, w) ==
    IF GetDocumentByWorker(S, w) = 0 \/ ~IsLoading(S, w)
    THEN [S EXCEPT !.workers[w].phase = "handled", !.werr = Ended(S, w)]
    ELSE CompleteOpen(TextReadBuffer(
             [S EXCEPT !.workers[w].phase = "handled", !.werr = Ended(S, w),
                       !.hit = GetDocumentByWorker(S, w)], w, S.current))

\* SciTEBase::TextRead; for the current buffer the load is completed, the
\* extension is told and the caret and scroll position are restored.
TextRead(S, w) ==
    IF GetDocumentByWorker(S, w) = 0 \/ ~IsLoading(S, w)
    THEN [S EXCEPT !.workers[w].phase = "handled", !.werr = Ended(S, w)]
    ELSE IF GetDocumentByWorker(S, w) = S.current
    THEN Msg(Msg(CompleteOpen(TextReadBuffer(
                     [S EXCEPT !.workers[w].phase = "handled", !.werr = Ended(S, w),
                               !.hit = S.current], w, S.current)),
                 "OnOpen"),
             "RestoreState")
    ELSE TextReadBuffer(
             [S EXCEPT !.workers[w].phase = "handled", !.werr = Ended(S, w),
                       !.hit = GetDocumentByWorker(S, w)],
             w, GetDocumentByWorker(S, w))

\* SciTEBase::TextWritten, the save failed or was cancelled: the buffer is
\* made visible again; hit is where SetVisible has put it.
TextWrittenFailed(S, iBuffer) ==
    IF GetVisible(S, iBuffer)
    THEN [S EXCEPT !.buffers[iBuffer].readOnly =
                       IF iBuffer = S.current THEN S.buffers[iBuffer].isReadOnly
                       ELSE @,
                   !.hit = iBuffer]
    ELSE [SetVisible(S, iBuffer, TRUE) EXCEPT !.hit = S.lengthVisible + 1]

\* SciTEBase::TextWritten, the save succeeded, from the point where an
\* invisible buffer has been removed.
TextWrittenSaved(S, iBuffer, pathSaved) ==
    IF iBuffer = S.current
    THEN IF pathSaved = CurrentBuffer(S).file
         THEN [S EXCEPT !.buffers[S.current].readOnly = CurrentBuffer(S).isReadOnly,
                        !.buffers[S.current].isDirty = FALSE,
                        !.cleared =
                            IF CurrentBuffer(S).isDirty
                            THEN @ \cup {<<pathSaved, CurrentBuffer(S).file>>}
                            ELSE @]
         ELSE SetReadOnly(S, CurrentBuffer(S).isReadOnly)
    ELSE ScheduleFinishSave(S, iBuffer, pathSaved)

\* TextWritten removing an invisible buffer whatever the outcome of the save.
TextWrittenBufferRemoving(S, iBuffer, pathSaved, errSaved, cancelledSaved) ==
    TextWrittenSaved(IF ~GetVisible(S, iBuffer)
                     THEN RemoveInvisible(S, iBuffer) ELSE S,
                     iBuffer, pathSaved)

\* SciTEBase::TextWritten from the point where the storer has been taken
\* from buffer iBuffer.
TextWrittenBuffer(S, iBuffer, pathSaved, errSaved, cancelledSaved) ==
    IF errSaved \/ cancelledSaved THEN TextWrittenFailed(S, iBuffer)
    ELSE TextWrittenSaved(IF ~GetVisible(S, iBuffer)
                          THEN RemoveInvisible(S, iBuffer) ELSE S,
                          iBuffer, pathSaved)

\* SciTEBase::TextWritten up to the message about a failed save.
TextWrittenStorer(S, w) ==
    IF GetDocumentByWorker(S, w) = 0
    THEN [S EXCEPT !.workers[w].phase = "handled", !.werr = Ended(S, w),
                   !.msgs = @ \cup {"CouldNotFindBuffer"}
                               \cup (IF S.workers[w].err THEN {"FailedSave"} ELSE {})]
    ELSE TextWrittenBuffer(
             CompleteStoring(
                 [S EXCEPT !.workers[w].phase = "handled", !.werr = Ended(S, w),
                           !.hit = GetDocumentByWorker(S, w),
                           !.msgs = IF S.workers[w].err
                                    THEN @ \cup {"FailedSave"} ELSE @],
                 GetDocumentByWorker(S, w)),
             GetDocumentByWorker(S, w), S.workers[w].path, S.workers[w].err,
             S.workers[w].cancelling)

\* SciTEBase::Execute: the queued command is started, unless a save is
\* still going on in the background: the command may need the file.
Execute(S) ==
    IF SavingInBackground(S) THEN S
    ELSE [S EXCEPT !.jobQueue.executing = TRUE, !.msgs = @ \cup {"Execute"}]

\* TextWritten starting the queued command whether or not saves go on.
TextWrittenExecuteAlways(S) ==
    IF ~S.jobQueue.executing /\ S.jobQueue.commandToRun
    THEN [S EXCEPT !.jobQueue.executing = TRUE, !.msgs = @ \cup {"Execute"}]
    ELSE S

\* SciTEBase::TextWritten, the queued command.
TextWrittenExecute(S) ==
    IF ~S.jobQueue.executing /\ S.jobQueue.commandToRun THEN Execute(S) ELSE S

---------------------------------------------------------------------------
\* Saving.

\* The chunks SaveBuffer's loop cuts a document of n bytes into.
NumChunks(n) == (n + BlockSize - 1) \div BlockSize

ChunkOf(t, k) == SubSeq(t, (k - 1) * BlockSize + 1, Min(k * BlockSize, Len(t)))

\* The bytes of chunk k that reach the file.
Reached(t, k, io) == IF io.shortAt = k THEN Min(io.shortN, Len(ChunkOf(t, k)))
                     ELSE Len(ChunkOf(t, k))

\* convert->fwrite (Utf8_16::Writer): what it returns for chunk k.  A chunk
\* that does not reach the file whole is reported as not written.
Written(t, k, io) == IF Reached(t, k, io) < Len(ChunkOf(t, k)) THEN 0
                     ELSE Len(ChunkOf(t, k))

\* No chunk write is taken as failed, whatever fwrite returns.
WriteFailedNever(t, k, io) == FALSE

\* A chunk write is taken as failed when fwrite returns 0.
WriteFailed(t, k, io) == Written(t, k, io) = 0

\* The synchronous write loop of SaveBuffer: [ok, bytes in the file, whether
\* a chunk was written short].
RECURSIVE WriteLoop(_, _, _, _)
WriteLoop(t, k, io, out) ==
    IF k > NumChunks(Len(t)) THEN [ok |-> TRUE, bytes |-> out, short |-> FALSE]
    ELSE IF WriteFailed(t, k, io)
    THEN [ok |-> FALSE, bytes |-> out \o Prefix(ChunkOf(t, k), Reached(t, k, io)),
          short |-> TRUE]
    ELSE IF Reached(t, k, io) < Len(ChunkOf(t, k))
    THEN [WriteLoop(t, k + 1, io, out \o Prefix(ChunkOf(t, k), Reached(t, k, io)))
             EXCEPT !.short = TRUE]
    ELSE WriteLoop(t, k + 1, io, out \o ChunkOf(t, k))

\* SaveBuffer's synchronous branch, r being what the write loop did.
SaveBufferWritten(S, saveName, r, io) ==
    [S EXCEPT !.disk[saveName].bytes =
                  Encode(CurrentBuffer(S).unicodeMode, TextAsView(S), r.bytes),
              !.shortWrite = r.short,
              !.ret = IF r.ok /\ io.fcloseOk THEN "true" ELSE "false",
              !.saveRet = IF r.ok /\ io.fcloseOk THEN "true" ELSE "false"]

\* SaveBuffer's background branch: the document is made read-only and a
\* storer is given a view of its text.
SaveBufferStorer(S, saveName, io) ==
    IF io.threadOk
    THEN [NewWorker(SetReadOnly(S, TRUE), "save", saveName, TextAsView(S), TRUE)
             EXCEPT !.ret = "true", !.saveRet = "true"]
    ELSE [NewWorker(SetReadOnly(S, TRUE), "save", saveName, TextAsView(S), FALSE)
             EXCEPT !.ret = "false", !.saveRet = "false",
                    !.msgs = @ \cup {"ThreadFailed"}]

\* SaveBuffer writing in the foreground whatever the flags say.
SaveBufferInForeground(S, saveName, synchronous, io) ==
    IF ~io.fpOk THEN [S EXCEPT !.ret = "false", !.saveRet = "false"]
    ELSE SaveBufferWritten(
             [S EXCEPT !.disk[saveName] =
                           [exists |-> TRUE, bytes |-> <<>>, time |-> S.now]],
             saveName, WriteLoop(TextAsView(S), 1, io, <<>>), io)

\* SciTEBase::SaveBuffer; the result is in ret.  No extension handles the
\* save (OnBeforeSave returns false) and no clean-up option is set.
SaveBuffer(S, saveName, synchronous, io) ==
    IF ~io.fpOk THEN [S EXCEPT !.ret = "false", !.saveRet = "false"]
    ELSE IF ~synchronous
    THEN SaveBufferStorer(
             [S EXCEPT !.disk[saveName] =
                           [exists |-> TRUE, bytes |-> <<>>, time |-> S.now]],
             saveName, io)
    ELSE SaveBufferWritten(
             [S EXCEPT !.disk[saveName] =
                           [exists |-> TRUE, bytes |-> <<>>, time |-> S.now]],
             saveName, WriteLoop(TextAsView(S), 1, io, <<>>), io)

\* Save taking every foreground save as done, whatever SaveBuffer returned.
SaveResultUnchecked(S, sync) ==
    [S EXCEPT !.buffers[S.current].isDirty = IF sync THEN FALSE ELSE @]

\* SciTEBase::Save after SaveBuffer has returned.  The Save As dialog
\* offered after a failure is cancelled by the user.
SaveResult(S, sync) ==
    IF S.ret = "true"
    THEN [SetTimeFromFile(S)
             EXCEPT !.buffers[S.current].isDirty = IF sync THEN FALSE ELSE @]
    ELSE [S EXCEPT !.buffers[S.current].failedSave = TRUE,
                   !.msgs = IF CurrentBuffer(S).failedSave THEN @
                            ELSE @ \cup {"CouldNotSaveQuestion"}]

\* Save without the test that turns a save away from a buffer that has a
\* worker.
SaveTitledUnguarded(S, sfSynchronous, io) ==
    IF ShouldNotSave(CurrentBuffer(S))
    THEN [S EXCEPT !.msgs = @ \cup {"NotLoadedYet"}, !.ret = "true"]
    ELSE SaveResult(
             SaveBuffer(S, filePath(S),
                        sfSynchronous \/ LengthDocument(S) <= BackgroundSaveSize
                            \/ SingleBuffer, io),
             sfSynchronous \/ LengthDocument(S) <= BackgroundSaveSize
                 \/ SingleBuffer)

\* SciTEBase::Save for a titled buffer (save.deletes.first and
\* save.check.modified.time are not set).
SaveTitled(S, sfSynchronous, io) ==
    IF ShouldNotSave(CurrentBuffer(S))
    THEN [S EXCEPT !.msgs = @ \cup {"NotLoadedYet"}, !.ret = "true"]
    ELSE IF CurrentBuffer(S).pFileWorker # 0
    THEN [S EXCEPT !.msgs = @ \cup {"AlreadyBeingSaved"}, !.ret = "true"]
    ELSE SaveResult(
             SaveBuffer(S, filePath(S),
                        sfSynchronous \/ LengthDocument(S) <= BackgroundSaveSize
                            \/ SingleBuffer, io),
             sfSynchronous \/ LengthDocument(S) <= BackgroundSaveSize
                 \/ SingleBuffer)

\* SciTEBase::SetFileName
SetFileName(S, path) == [S EXCEPT !.buffers[S.current].file = path]

\* SciTEBase::SaveAs
SaveAs(S, file, io) == SaveTitled(SetFileName(S, file), FALSE, io)

\* Save As without the search for a buffer that has the destination.
SaveIfNotOpenUnchecked(S, destFile, io) ==
    [SaveAs(S, destFile, io) EXCEPT !.ret = "true"]

\* SciTEBase::SaveIfNotOpen
SaveIfNotOpen(S, destFile, io) ==
    IF GetDocumentByName(S, destFile, TRUE) > 0
    THEN [S EXCEPT !.msgs = @ \cup {"AlreadyOpen"}, !.ret = "false"]
    ELSE [SaveAs(S, destFile, io) EXCEPT !.ret = "true"]

\* SaveAsDialog: the user cancels or picks io.dlg.
SaveAsDialog(S, io) ==
    IF io.dlg = Untitled THEN [S EXCEPT !.ret = "false"]
    ELSE SaveIfNotOpen(S, io.dlg, io)

\* SciTEBase::Save
Save(S, sfSynchronous, io) ==
    IF filePath(S) # Untitled THEN SaveTitled(S, sfSynchronous, io)
    ELSE SaveAsDialog(S, io)

\* What SaveIfUnsure makes of Save's result.
SaveIfUnsureSaved(S) ==
    [S EXCEPT !.ret = IF S.ret = "true" THEN "completed" ELSE "cancelled"]

\* SciTEBase::SaveIfUnsure (are.you.sure is set, its default); decision is
\* the user's answer to "Save changes?".
SaveIfUnsure(S, forceQuestion, sfSynchronous, decision, io) ==
    IF CurrentBuffer(S).pFileWorker # 0
    THEN [S EXCEPT !.buffers[S.current].failedSave = FALSE,
                   !.ret = IF IsLoading(S, CurrentBuffer(S).pFileWorker)
                           THEN "cancelled" ELSE "completed"]
    ELSE IF /\ CurrentBuffer(S).isDirty
            /\ (LengthDocument(S) > 0 \/ filePath(S) # Untitled \/ forceQuestion)
    THEN IF decision = "yes"
         THEN SaveIfUnsureSaved(
                  Save([S EXCEPT !.buffers[S.current].failedSave = FALSE,
                                 !.msgs = @ \cup {"SaveChangesQuestion"}],
                       sfSynchronous, io))
         ELSE [S EXCEPT !.buffers[S.current].failedSave = FALSE,
                        !.msgs = @ \cup {"SaveChangesQuestion"},
                        !.ret = IF decision = "cancel" THEN "cancelled"
                                ELSE "completed"]
    ELSE [S EXCEPT !.buffers[S.current].failedSave = FALSE, !.ret = "completed"]

---------------------------------------------------------------------------
\* Buffers: switching, creating, closing.

\* The end of SetDocumentAt and of Close: the deferred tasks of the buffer
\* that has become current, and the completion of its load if it was read
\* while the buffer was not current.
Activate(S) ==
    IF CurrentBuffer(S).lifeState = "readAll"
    THEN CompleteOpen(PerformDeferredTasks(S)) ELSE PerformDeferredTasks(S)

\* SciTEBase::SetDocumentAt
SetDocumentAt(S, index) ==
    IF index < 1 \/ index > S.length \/ index = S.current THEN S
    ELSE Activate([S EXCEPT !.current = index])

\* SciTEBase::New from the point where the buffer to use is current.
NewCurrent(S) ==
    [S EXCEPT !.buffers[S.current] =
                  [@ EXCEPT !.file = Untitled, !.loadHist = "none",
                            !.isDirty = FALSE, !.unicodeMode = "uni8Bit",
                            !.failedSave = FALSE, !.lifeState = "opened",
                            !.text = <<>>, !.readOnly = CurrentBuffer(S).isReadOnly]]

\* BufferList::Add and the move to the new buffer.
AddCurrent(S) == [S EXCEPT !.current = S.lengthVisible]

\* SciTEBase::New, as Open calls it (a slot is free): the initial clean
\* untitled buffer is overwritten, otherwise a buffer is added.
New(S) ==
    IF \/ S.length > 1
       \/ S.current # 1
       \/ S.buffers[1].isDirty
       \/ S.buffers[1].file # Untitled
    THEN NewCurrent(AddCurrent(AddBuffer(S)))
    ELSE NewCurrent(S)

\* SciTEBase::IsBufferAvailable
IsBufferAvailable(S) == Size(S) > 1 /\ S.length < Size(S)

\* What CanMakeRoom makes of SaveIfUnsure's result.
CanMakeRoomSaved(S) ==
    [S EXCEPT !.ret = IF S.ret # "cancelled" THEN "true" ELSE "false"]

\* SciTEBase::CanMakeRoom; the result is in ret.
CanMakeRoom(S, maySaveIfDirty, decision, sio) ==
    IF IsBufferAvailable(S) THEN [S EXCEPT !.ret = "true"]
    ELSE IF maySaveIfDirty
    THEN CanMakeRoomSaved(SaveIfUnsure(S, TRUE, TRUE, decision, sio))
    ELSE [S EXCEPT !.ret = "true"]

\* SciTEBase::Close, the current buffer has a worker: it is made invisible,
\* and a buffer is created when no visible one is left.
CloseInvisible(S) ==
    IF S.lengthVisible > 0 THEN S
    ELSE IF S.length < Size(S) THEN New(S)
    ELSE [S EXCEPT !.overflow = TRUE]

\* SciTEBase::Close for buffers.size() > 1, called when a buffer can be
\* added should the last visible buffer go.
Close(S) ==
    IF S.lengthVisible = 1 /\ S.buffers[1].pFileWorker = 0
    THEN ClearDocument(SetReadOnly(
             Activate([S EXCEPT !.buffers[1] =
                                    [BufferInit EXCEPT !.lifeState = "opened"]]),
             FALSE))
    ELSE IF CurrentBuffer(S).pFileWorker # 0
    THEN Activate(CloseInvisible(SetVisible(S, S.current, FALSE)))
    ELSE Activate(RemoveCurrent(S))

\* The Close command: SaveIfUnsure, then Close unless that was cancelled.
CloseCommand(S) ==
    IF S.ret = "cancelled" THEN S ELSE [Close(S) EXCEPT !.ret = "completed"]

---------------------------------------------------------------------------
\* Open and Revert.

\* SciTEBase::Open after OpenCurrentFile: the buffer's read-only policy is
\* taken from the properties (read.only is not set) and applied.
OpenOpened(S) ==
    [S EXCEPT !.buffers[S.current].isReadOnly = FALSE,
              !.buffers[S.current].readOnly = FALSE,
              !.ret = "true"]

\* SciTEBase::Open, the choice between a background and a foreground load.
Asynchronous(of, fileSize) ==
    /\ fileSize > BackgroundOpenSize
    /\ of \cap {"ofPreserveUndo", "ofSynchronous"} = {}

\* SciTEBase::Open, its end: the extension is told unless a loader was
\* asked for.
OpenNotify(S, asynchronous) ==
    IF asynchronous THEN S ELSE Msg(S, "OnOpen")

\* SciTEBase::Open before the load: a load that keeps the undo history is
\* one undo action, for any other load undo collection is suspended.
OpenSuspendUndo(S, of) ==
    IF "ofPreserveUndo" \in of THEN S ELSE SetUndoCollection(S, FALSE)

\* Open telling the extension in every case.
OpenNamedNotifying(S, file, of, fileSize, lio) ==
    IF file = Untitled THEN Msg([S EXCEPT !.ret = "true"], "OnOpen")
    ELSE Msg(OpenOpened(
                 OpenCurrentFile(OpenSuspendUndo(SetReadOnly(S, FALSE), of),
                                 fileSize, "ofQuiet" \in of,
                                 Asynchronous(of, fileSize), lio)),
             "OnOpen")

\* SciTEBase::Open from the point where the buffer for the file is current
\* and named.
OpenNamed(S, file, of, fileSize, lio) ==
    IF file = Untitled THEN OpenNotify([S EXCEPT !.ret = "true"], FALSE)
    ELSE OpenNotify(
             OpenOpened(
                 OpenCurrentFile(OpenSuspendUndo(SetReadOnly(S, FALSE), of),
                                 fileSize, "ofQuiet" \in of,
                                 Asynchronous(of, fileSize), lio)),
             Asynchronous(of, fileSize))

\* SciTEBase::Open, the buffer the file goes to: the current one recycled
\* when the registry is full, a new one, or the one being reloaded.
OpenBuffer(S, index, of) ==
    IF S.length = Size(S)
    THEN [S EXCEPT !.buffers[S.current] =
                       [@ EXCEPT !.text = <<>>, !.isDirty = FALSE,
                                 !.undoCollection = TRUE,
                                 !.readOnly = CurrentBuffer(S).isReadOnly,
                                 !.lifeState = "opened", !.loadHist = "none"]]
    ELSE IF index = 0 \/ "ofForceLoad" \notin of THEN New(S)
    ELSE S

\* SciTEBase::Open after CanMakeRoom, in a build that is not for 64-bit
\* Windows: a file larger than INTPTR_MAX is refused, and one larger than
\* max.file.size is opened if the user says so.
OpenRoom(S, index, file, of, lio) ==
    IF S.ret = "false" THEN S
    ELSE IF GetFileLength(S, file) > IntptrMax
    THEN Msg([S EXCEPT !.ret = "false"], "LargerThan2GB")
    ELSE IF /\ GetFileLength(S, file) > 0
            /\ MaxFileSize > 0 /\ GetFileLength(S, file) > MaxFileSize
            /\ ~lio.openAnyway
    THEN Msg([S EXCEPT !.ret = "false"], "LargerThanLimitQuestion")
    ELSE OpenNamed(SetFileName(OpenBuffer(S, index, of), file), file, of,
                   GetFileLength(S, file), lio)

\* SciTEBase::Open after the search for a buffer that has the file.
OpenFound(S, index, file, of, decision, sio, lio) ==
    IF index > 0 /\ ("ofForceLoad" \notin of \/ CurrentBuffer(S).pFileWorker # 0)
    THEN [S EXCEPT !.ret = "true"]
    ELSE OpenRoom(CanMakeRoom(S, "ofNoSaveIfDirty" \notin of, decision, sio),
                  index, file, of, lio)

\* SciTEBase::Open; the result is in ret.
Open(S, file, of, decision, sio, lio) ==
    IF GetDocumentByName(S, file, FALSE) > 0
    THEN OpenFound(SetDocumentAt(SetVisible(S, GetDocumentByName(S, file, FALSE), TRUE),
                                 GetDocumentByName(S, file, FALSE)),
                   GetDocumentByName(S, file, FALSE), file, of, decision, sio, lio)
    ELSE OpenFound(S, 0, file, of, decision, sio, lio)

\* CommonEnds: [start, last], the lengths of the common prefix and suffix.
RECURSIVE CommonStart(_, _, _)
CommonStart(a, b, start) ==
    IF start < Min(Len(a), Len(b)) /\ a[start + 1] = b[start + 1]
    THEN CommonStart(a, b, start + 1) ELSE start

RECURSIVE CommonLast(_, _, _, _)
CommonLast(a, b, maxLeft, lst) ==
    IF lst < maxLeft /\ a[Len(a) - lst] = b[Len(b) - lst]
    THEN CommonLast(a, b, maxLeft, lst + 1) ELSE lst

CommonEnds(a, b) ==
    LET start == CommonStart(a, b, 0)
    IN [start |-> start,
        last |-> CommonLast(a, b, Min(Len(a), Len(b)) - start, 0)]

\* The file length below which Revert compares in place (1000000, scaled).
RevertShortLimit == 5

\* FilePath::Read
ReadFile(S, path) == IF S.disk[path].exists THEN S.disk[path].bytes ELSE <<>>

\* SciTEBase::Revert comparing in place: the part of the document between
\* what it has in common with the file's text at the start and at the end is
\* replaced by the file's, unless the two are equal, and the save point is
\* set.
RevertInPlace(S, viewContents) ==
    LET doc == TextAsView(S)
        ends == CommonEnds(doc, viewContents)
        changed == SubSeq(viewContents, ends.start + 1,
                          Len(viewContents) - ends.last)
    IN SetSavePoint(
           IF Len(viewContents) # Len(doc) \/ ends.start # Len(doc)
           THEN SetText(S, SubSeq(doc, 1, ends.start) \o changed
                               \o SubSeq(doc, Len(doc) - ends.last + 1, Len(doc)))
           ELSE S)

\* The encodings Revert compares in place.
RevertInPlaceModes == {"cookie", "uni8Bit", "utf8"}

\* Revert handing the whole reload to a loader.
RevertInBackground(S, lio) ==
    IF filePath(S) = Untitled THEN SetText(S, <<>>)
    ELSE OpenCurrentFile(S, GetFileLength(S, filePath(S)), FALSE, TRUE, lio)

\* SciTEBase::Revert
Revert(S, lio) ==
    IF filePath(S) = Untitled THEN SetText(S, <<>>)
    ELSE LET fileLength == GetFileLength(S, filePath(S))
             uniMode == CurrentBuffer(S).unicodeMode
             contents == ReadFile(S, filePath(S))
         IN IF fileLength < RevertShortLimit /\ uniMode \in RevertInPlaceModes
            THEN IF uniMode = "utf8" /\ ~IsPrefix(BOM, contents)
                 THEN OpenCurrentFile(S, fileLength, FALSE, FALSE, lio)
                 ELSE RevertInPlace(S,
                          IF uniMode = "utf8"
                          THEN SubSeq(contents, Len(BOM) + 1, Len(contents))
                          ELSE contents)
            ELSE OpenCurrentFile(S, fileLength, FALSE, FALSE, lio)

---------------------------------------------------------------------------
\* Changes made to the file by other programs.

\* CheckReload, the buffer has been answered about the time newModTime of its
\* file: the time is remembered as the last one asked about.
CheckReloadAnswered(S, file, newModTime) ==
    [S EXCEPT !.buffers[S.current].fileModLastAsk = newModTime,
              !.buffers[S.current].asked = @ \cup {<<file, newModTime>>},
              !.buffers[S.current].askedEver = @ \cup {<<file, newModTime>>}]

\* CheckReload asking whatever time it asked about last.
CheckReloadAskAgain(S, newModTime, decision, decisionSave, sio, lio) ==
    CheckReloadAnswered(
        IF decision = "yes"
        THEN Open(Msg(S, "ReloadQuestion"), filePath(S), {"ofForceLoad"},
                  decisionSave, sio, lio)
        ELSE Msg(S, "ReloadQuestion"),
        filePath(S), newModTime)

\* CheckReload, the file has a time other than the buffer's and the buffer
\* is dirty (or every reload is to be confirmed): the user is asked unless
\* the question was asked about this time already; "yes" reloads the file.
\* No other dialog is on screen when the application is activated.
CheckReloadAsk(S, newModTime, decision, decisionSave, sio, lio) ==
    IF newModTime = CurrentBuffer(S).fileModLastAsk THEN S
    ELSE CheckReloadAnswered(
             IF decision = "yes"
             THEN Open(Msg(S, "ReloadQuestion"), filePath(S), {"ofForceLoad"},
                       decisionSave, sio, lio)
             ELSE Msg(S, "ReloadQuestion"),
             filePath(S), newModTime)

\* CheckReload finding the file gone and keeping the buffer's times.
CheckReloadDeletedAgain(S) ==
    [S EXCEPT !.buffers[S.current].isDirty = TRUE,
              !.msgs = @ \cup {"HasBeenDeleted"}]

\* CheckReload, the file is gone: the buffer forgets its times and is dirty.
CheckReloadDeleted(S) ==
    [S EXCEPT !.buffers[S.current].fileModTime = 0,
              !.buffers[S.current].fileModLastAsk = 0,
              !.buffers[S.current].asked = {},
              !.buffers[S.current].isDirty = TRUE,
              !.msgs = @ \cup {"HasBeenDeleted"}]

\* CheckReload reloading a changed file without a question.
CheckReloadUnasked(S, decision, sure, decisionSave, sio, lio) ==
    IF /\ ModifiedTime(S, filePath(S)) # 0
       /\ ModifiedTime(S, filePath(S)) # CurrentBuffer(S).fileModTime
    THEN Open(S, filePath(S), {"ofForceLoad"}, decisionSave, sio, lio)
    ELSE IF /\ ModifiedTime(S, filePath(S)) = 0
            /\ CurrentBuffer(S).fileModTime # 0
    THEN CheckReloadDeleted(S)
    ELSE S

\* SciTEBase::CheckReload (load.on.activate is set, reload.preserves.undo is
\* not): run when the application is activated; sure is whether property
\* are.you.sure.on.reload is set at that time.
CheckReload(S, decision, sure, decisionSave, sio, lio) ==
    IF /\ ModifiedTime(S, filePath(S)) # 0
       /\ ModifiedTime(S, filePath(S)) # CurrentBuffer(S).fileModTime
    THEN IF CurrentBuffer(S).isDirty \/ sure
         THEN CheckReloadAsk(S, ModifiedTime(S, filePath(S)), decision,
                             decisionSave, sio, lio)
         ELSE Open(S, filePath(S), {"ofForceLoad"}, decisionSave, sio, lio)
    ELSE IF /\ ModifiedTime(S, filePath(S)) = 0
            /\ CurrentBuffer(S).fileModTime # 0
    THEN CheckReloadDeleted(S)
    ELSE S

---------------------------------------------------------------------------
\* Save-all, quitting and the queued command.

\* SciTEBase::SaveAllBuffers(false), its loop from visible buffer i on:
\* each dirty buffer is made current and SaveIfUnsure asks about it, until
\* the user cancels.
RECURSIVE SaveAllBuffersFrom(_, _, _, _)
SaveAllBuffersFrom(S, i, decision, io) ==
    IF i > S.lengthVisible \/ S.ret = "cancelled" THEN S
    ELSE IF S.buffers[i].isDirty
    THEN SaveAllBuffersFrom(
             SaveIfUnsure(SetDocumentAt(S, i), FALSE, FALSE, decision, io),
             i + 1, decision, io)
    ELSE SaveAllBuffersFrom(S, i + 1, decision, io)

\* SciTEBase::SaveAllBuffers(false); the buffer that was current is made
\* current again, the result is in ret.
SaveAllBuffers(S, decision, io) ==
    SetDocumentAt(SaveAllBuffersFrom([S EXCEPT !.ret = "completed"], 1, decision, io),
                  S.current)

\* SciTEBase::SaveIfUnsureAll, the buffers that have been read but not
\* marked read: they are marked read and their loaders deleted.
RECURSIVE CompleteLoadingFrom(_, _)
CompleteLoadingFrom(S, i) ==
    IF i > Size(S) THEN S
    ELSE CompleteLoadingFrom(IF S.buffers[i].lifeState = "readAll"
                             THEN CompleteLoading(S, i) ELSE S, i + 1)

\* SciTEBase::SaveIfUnsureAll, the release of the documents (a slot that
\* is not in use holds none).
ReleaseDocuments(S) ==
    [S EXCEPT !.buffers = [i \in 1..Size(S) |->
                              IF /\ i <= S.length
                                 /\ S.buffers[i].doc
                                 /\ S.buffers[i].pFileWorker = 0
                              THEN [S.buffers[i] EXCEPT !.doc = FALSE]
                              ELSE S.buffers[i]]]

\* SciTEBase::SaveIfUnsureAll after SaveAllBuffers (no session is saved,
\* no extension needs OnClose).
SaveIfUnsureAllSaved(S) ==
    IF S.ret = "cancelled" THEN S
    ELSE [ReleaseDocuments(CompleteLoadingFrom(S, 1)) EXCEPT !.ret = "completed"]

\* SciTEBase::SaveIfUnsureAll
SaveIfUnsureAll(S, decision, io) ==
    SaveIfUnsureAllSaved(SaveAllBuffers(S, decision, io))

\* QuitProgram as save completion calls it: the program ends.
QuitProgram(S) == [S EXCEPT !.exited = TRUE, !.msgs = @ \cup {"QuitProgram"}]

\* The Quit command after SaveIfUnsureAll: unless the user cancelled, the
\* program is quitting; it ends at once when no save is going on in the
\* background and otherwise waits for the saves.
QuitSaved(S) ==
    IF S.ret = "cancelled" THEN S
    ELSE IF SavingInBackground(S) THEN [S EXCEPT !.quitting = TRUE]
    ELSE [S EXCEPT !.quitting = TRUE, !.exited = TRUE]

\* The Quit command.
Quit(S, decision, io) ==
    QuitSaved(SaveIfUnsureAll([S EXCEPT !.quitting = FALSE], decision, io))

\* SciTEBase::SaveIfUnsureForBuilt (save.all.for.build and
\* are.you.sure.for.build are not set): a dirty current buffer is saved.
SaveIfUnsureForBuilt(S, io) ==
    IF CurrentBuffer(S).isDirty
    THEN [Save(S, FALSE, io) EXCEPT !.ret = "completed"]
    ELSE [S EXCEPT !.ret = "completed"]

\* A Tools menu command (Compile, Build, Go): the buffer is saved, the
\* command is queued and Execute is asked to start it.
ToolsMenu(S, io) ==
    Execute([SaveIfUnsureForBuilt(S, io) EXCEPT !.jobQueue.commandToRun = TRUE])

\* The queued command has run to its end.
CommandCompleted(S) ==
    [S EXCEPT !.jobQueue = [commandToRun |-> FALSE, executing |-> FALSE]]

\* TextWritten calling QuitProgram whether or not saves go on.
TextWrittenQuitAlways(S) ==
    IF S.quitting THEN QuitProgram(S) ELSE S

\* SciTEBase::TextWritten, its end while quitting.
TextWrittenQuit(S) ==
    IF S.quitting /\ ~SavingInBackground(S) THEN QuitProgram(S) ELSE S

\* SciTEBase::TextWritten
TextWritten(S, w) == TextWrittenQuit(TextWrittenExecute(TextWrittenStorer(S, w)))

---------------------------------------------------------------------------
\* Cancellation and the workers' threads.

\* Buffer::CancelLoad as the coordinator uses it: the current buffer's
\* loader is asked to stop; the buffer keeps the worker until its
\* completion has been processed.
CancelLoad(S) ==
    LET w == CurrentBuffer(S).pFileWorker
    IN IF w # 0 /\ IsLoading(S, w)
       THEN [S EXCEPT !.workers[w].cancelling = TRUE,
                      !.buffers[S.current].loadHist =
                          IF S.workers[w].phase = "running" THEN "cancelled" ELSE @]
       ELSE S

\* SciTEBase::AbandonAutomaticSave: the current buffer's storer is asked to stop.
AbandonAutomaticSave(S) ==
    LET w == CurrentBuffer(S).pFileWorker
    IN IF w # 0 /\ ~IsLoading(S, w)
       THEN [S EXCEPT !.workers[w].cancelling = TRUE]
       ELSE S

\* The chunk boundaries of a stream of n bytes.
Boundaries(n) == {k \in 0..n : k % BlockSize = 0 \/ k = n}

\* FileLoader::Execute: the file is read chunk by chunk into the loader's
\* document; a read error after n bytes sets err, a cancellation seen at a
\* chunk boundary stops the loop; then the completion is posted.
LoaderExecute(S, w, n, e) ==
    LET file == ReadFile(S, S.workers[w].path)
    IN [S EXCEPT !.workers[w].bytes = Decode(IF e \/ S.workers[w].cancelling
                                             THEN Prefix(file, n) ELSE file),
                 !.workers[w].unicodeMode =
                     Encoding(IF e \/ S.workers[w].cancelling
                              THEN Prefix(file, n) ELSE file),
                 !.workers[w].err = e,
                 !.workers[w].phase = "posted"]

\* The bytes a storer can find behind its view of the document: the text at
\* save-start or, the view being into the document's own memory, what the
\* owning buffer's document holds now.
StorerViews(S, w) ==
    LET i == GetDocumentByWorker(S, w)
        snap == S.workers[w].snapshot
    IN {snap} \cup (IF i = 0 THEN {} ELSE {Prefix(S.buffers[i].text, Len(snap))})

\* FileStorer::Execute: the byte order mark is written first if the mode
\* asks for one, then the view t chunk by chunk; a short write
\* after n bytes sets err, a cancellation seen at a chunk boundary stops the
\* loop; then the completion is posted.
StorerExecute(S, w, t, n, e) ==
    LET out == IF e \/ S.workers[w].cancelling THEN Prefix(t, n) ELSE t
    IN [S EXCEPT !.workers[w].bytes = out,
                 !.workers[w].err = e,
                 !.workers[w].phase = "posted",
                 !.disk[S.workers[w].path] =
                     [exists |-> TRUE,
                      bytes |-> Marked(S.workers[w].unicodeMode, out),
                      time |-> S.now]]

---------------------------------------------------------------------------
\* The scripting extension (LuaExtension.cxx).

\* What the registry's SciTE_BufferData_Array holds at an index, and what the
\* global 'buffer' holds: nil (-1), or a table, told by what a script has
\* stored in it (0: nothing yet).
Nil == -1
BufferData == {Nil} \cup (0..MaxData)

\* The extension as loaded: no Lua state (luaState is nullptr), no buffer
\* yet; array is the SciTE_BufferData_Array (hasArray: the registry holds
\* the table), buffer is the global 'buffer' and shown the index at which
\* the array holds the table that the global refers to (-1: the global is
\* nil, or its table is no longer in the array).  op is the call made last,
\* for stating the properties: its name, its index and what the array held
\* at that index before the call.
LuaInit ==
    [luaState |-> FALSE, maxBufferIndex |-> -1, curBufferIndex |-> -1,
     hasArray |-> FALSE, array |-> [i \in 0..MaxIndex |-> Nil],
     buffer |-> Nil, shown |-> -1, op |-> <<"none", -1, Nil>>]

\* PublishGlobalBufferData: the table of the current index, made if there
\* is none, becomes the global 'buffer'; without a current index the global
\* is nil.
PublishGlobalBufferData(L) ==
    IF L.curBufferIndex >= 0
    THEN LET data == IF L.hasArray THEN L.array[L.curBufferIndex] ELSE Nil
             table == IF data = Nil THEN 0 ELSE data
         IN [L EXCEPT !.hasArray = TRUE,
                      !.array[L.curBufferIndex] = table,
                      !.buffer = table,
                      !.shown = L.curBufferIndex]
    ELSE [L EXCEPT !.buffer = Nil, !.shown = -1]

\* InitGlobalScope: the Lua state is made if there is none; a reload (or a
\* new state) starts from an initial state without buffer data; the buffer
\* data of the current index is published.
InitGlobalScope(L, reload) ==
    IF L.luaState /\ ~reload
    THEN PublishGlobalBufferData(L)
    ELSE PublishGlobalBufferData(
             [L EXCEPT !.luaState = TRUE, !.hasArray = FALSE,
                       !.array = [i \in 0..MaxIndex |-> Nil]])

\* InitBuffer keeping the data of the index.
InitBufferKeeping(L, index) ==
    [L EXCEPT !.maxBufferIndex = IF index > @ THEN index ELSE @,
              !.curBufferIndex = index]

\* LuaExtension::InitBuffer.  The array lets go of the table of the index;
\* the global 'buffer' is not set here and keeps the table it refers to.
InitBuffer(L, index) ==
    [L EXCEPT !.maxBufferIndex = IF index > @ THEN index ELSE @,
              !.array = IF L.luaState /\ L.hasArray
                        THEN [@ EXCEPT ![index] = Nil] ELSE @,
              !.shown = IF L.luaState /\ L.hasArray /\ @ = index THEN -1 ELSE @,
              !.curBufferIndex = index]

\* LuaExtension::ActivateBuffer
ActivateBuffer(L, index) == [L EXCEPT !.curBufferIndex = index]

\* LuaExtension::RemoveBuffer, its loop from index i on: the element after
\* i is copied to i.
RECURSIVE RemoveBufferLoop(_, _, _)
RemoveBufferLoop(array, i, maxIndex) ==
    IF i < maxIndex
    THEN RemoveBufferLoop([array EXCEPT ![i] = array[i + 1]], i + 1, maxIndex)
    ELSE array

\* RemoveBuffer clearing the slot of the buffer and moving nothing.
RemoveBufferInPlace(L, index) ==
    [L EXCEPT !.array = IF L.luaState /\ L.hasArray
                        THEN [@ EXCEPT ![index] = Nil] ELSE @,
              !.shown = IF L.luaState /\ L.hasArray /\ @ = index THEN -1 ELSE @,
              !.maxBufferIndex = IF @ > 0 THEN @ - 1 ELSE @,
              !.curBufferIndex = -1]

\* LuaExtension::RemoveBuffer.  The tables move with the array's elements;
\* the table of the removed index leaves the array, and the global 'buffer'
\* is not set here.
RemoveBuffer(L, index) ==
    [L EXCEPT !.array =
                  IF L.luaState /\ L.hasArray
                  THEN [j \in 0..MaxIndex |->
                           IF j = L.maxBufferIndex THEN Nil
                           ELSE RemoveBufferLoop(@, index, L.maxBufferIndex)[j]]
                  ELSE @,
              !.shown =
                  IF L.luaState /\ L.hasArray /\ @ >= index /\ @ <= L.maxBufferIndex
                  THEN (IF @ = index THEN -1 ELSE @ - 1)
                  ELSE @,
              !.maxBufferIndex = IF @ > 0 THEN @ - 1 ELSE @,
              !.curBufferIndex = -1]

\* A script stores value in the table that the global 'buffer' refers to;
\* where the array holds that table, the array's element shows the value.
StoreInBuffer(L, value) ==
    [L EXCEPT !.array = IF L.shown >= 0 THEN [@ EXCEPT ![L.shown] = value] ELSE @,
              !.buffer = value]

---------------------------------------------------------------------------
\* The inputs the actions draw.

\* The outcomes of the system calls of one load: whether the file opens,
\* whether CreateLoader succeeds, whether the thread starts, how many bytes
\* the reads deliver before a read error (NoReadError: no error); openAnyway
\* is the user's answer where Open asks whether to open a file larger than
\* max.file.size.  Here all succeed and the answer is yes.
LoadOK == [fpOk |-> TRUE, loaderOk |-> TRUE, threadOk |-> TRUE,
           readN |-> NoReadError, openAnyway |-> TRUE]

\* Every system call would succeed, and the user answers no.
LoadDeclined == [LoadOK EXCEPT !.openAnyway = FALSE]

\* The loads with one system call failing.
LoadFaults ==
    {[LoadOK EXCEPT !.fpOk = FALSE], [LoadOK EXCEPT !.loaderOk = FALSE],
     [LoadOK EXCEPT !.threadOk = FALSE]}
    \cup {[LoadOK EXCEPT !.readN = n] : n \in 0..(MaxFileLen - 1)}

LoadIOs == {LoadOK} \cup (IF spent + 1 + FaultCost <= MaxSpent THEN LoadFaults ELSE {})

\* The outcomes of the system calls of one save: whether the file opens for
\* writing, whether the thread starts, which chunk (0: none) is written
\* short and how many of its bytes get written, whether fclose succeeds;
\* dlg is the name the user picks in the Save As dialog (Untitled: the user
\* cancels the dialog).  Here all succeed.
SaveOK == [fpOk |-> TRUE, threadOk |-> TRUE, shortAt |-> 0, shortN |-> 0,
           fcloseOk |-> TRUE, dlg |-> Untitled]

\* The saves with one system call failing.
SaveFaults ==
    {[SaveOK EXCEPT !.fpOk = FALSE], [SaveOK EXCEPT !.threadOk = FALSE],
     [SaveOK EXCEPT !.fcloseOk = FALSE]}
    \cup {[SaveOK EXCEPT !.shortAt = k, !.shortN = j] :
            k \in 1..NumChunks(MaxLen), j \in 0..(BlockSize - 1)}

SaveIOs == {SaveOK} \cup (IF spent + 1 + FaultCost <= MaxSpent THEN SaveFaults ELSE {})

\* The answers to "Save changes?", where SaveIfUnsure would ask.
Decisions(forceQuestion) ==
    IF /\ buffers[current].pFileWorker = 0
       /\ buffers[current].isDirty
       /\ \/ buffers[current].text # <<>>
          \/ buffers[current].file # Untitled
          \/ forceQuestion
    THEN {"yes", "no", "cancel"} ELSE {"no"}

---------------------------------------------------------------------------
\* The state machine.

\* The handlers whose result and message boxes the history variable keeps.
Observed == {"Save", "SaveAs", "Close", "TextRead", "TextWritten", "CheckReload",
             "Revert"}

\* What the history variable holds after any other handler.
Quiet == [op |-> "other", ret |-> "none", msgs |-> {}, hit |-> 0,
          werr |-> "none", saveRet |-> "none", shortWrite |-> FALSE,
          cleared |-> {}]

EmptyDisk == [p \in Paths |-> [exists |-> FALSE, bytes |-> <<>>, time |-> 0]]

\* The editor as constructed with size buffer slots: one clean untitled
\* buffer, no worker.
InitBuffers(size) ==
    /\ buffers = [i \in 1..size |->
                    IF i = 1 THEN [BufferInit EXCEPT !.lifeState = "opened"]
                    ELSE BufferInit]
    /\ length = 1
    /\ lengthVisible = 1
    /\ current = 1
    /\ now = 1
    /\ workers = [w \in WorkerIds |-> NoWorker]
    /\ spent = 0
    /\ edits = 0
    /\ quitting = FALSE
    /\ exited = FALSE
    /\ jobQueue = [commandToRun |-> FALSE, executing |-> FALSE]
    /\ last = Quiet
    /\ lua = LuaInit

\* The editor as constructed: one clean untitled buffer, no worker.
InitEditor == InitBuffers(BufferSize)

\* The files at the start: path 1 holds 8-bit text, path 2 the bytes f.
InitDisk(f) ==
    [EmptyDisk EXCEPT ![1] = [exists |-> TRUE, bytes |-> <<1, 1>>, time |-> 1],
                      ![2] = [exists |-> TRUE, bytes |-> f, time |-> 1]]

\* Path 2 holds UTF-8 text with a byte order mark.
\* A reader given the byte stream s, before the first chunk.
ConvertStart(s) ==
    [stream |-> s, rest |-> s, chunks |-> <<>>, reader |-> ReaderInit,
     flushed |-> FALSE]

\* No reader is at work on its own.
ConvertIdle == [ConvertStart(<<>>) EXCEPT !.flushed = TRUE]

Init ==
    /\ InitEditor
    /\ disk = InitDisk(BOM \o <<1, 1>>)
    /\ convert = ConvertIdle

\* The commands of the user, as opposed to the steps of the worker threads
\* and the completions they post.
UserCommands == {"Open", "Save", "SaveAs", "Revert", "SetDocumentAt", "Close",
                 "Edit", "CancelLoad", "AbandonAutomaticSave", "Quit", "ToolsMenu"}

\* The handler op has run, fault tells whether a system call failed in it,
\* and it has left S.
Commit(S, op, fault) ==
    /\ ~S.overflow
    /\ ~exited
    /\ op \in UserCommands => ~quitting
    /\ quitting' = S.quitting
    /\ exited' = S.exited
    /\ jobQueue' = S.jobQueue
    /\ spent' = spent + (IF op \in UserCommands THEN 1 ELSE 0)
                      + (IF fault THEN FaultCost ELSE 0)
    /\ spent' <= MaxSpent
    /\ buffers' = S.buffers
    /\ length' = S.length
    /\ lengthVisible' = S.lengthVisible
    /\ current' = S.current
    /\ disk' = S.disk
    /\ now' = S.now
    /\ workers' = S.workers
    /\ last' = IF op \in Observed
               THEN [op |-> op, ret |-> S.ret, msgs |-> S.msgs, hit |-> S.hit,
                     werr |-> S.werr, saveRet |-> S.saveRet,
                     shortWrite |-> S.shortWrite, cleared |-> S.cleared]
               ELSE [Quiet EXCEPT !.cleared = S.cleared]
    /\ UNCHANGED <<convert, lua>>

\* The handler has run with the system calls going as in io and left S;
\* S0 is what it leaves when every system call succeeds.  A failure that
\* no system call of the handler met is not a run of its own.
CommitIO(S, S0, io, op) ==
    /\ io \in LoadFaults \cup SaveFaults => S # S0
    /\ Commit(S, op, io \in LoadFaults \cup SaveFaults)
    /\ UNCHANGED edits

OpenFlagSets == {{}, {"ofSynchronous"}, {"ofPreserveUndo"}}

\* Open; when the registry is full the user is asked about the current
\* buffer, and the save that "yes" leads to goes well; when the file is
\* longer than max.file.size the user is asked whether to open it.  A flag
\* is given where it can matter: ofSynchronous and ofPreserveUndo for a file
\* long enough for a background load, ofForceLoad for a file some buffer has.
OpenAct ==
    \E file \in {Untitled} \cup Paths, of \in OpenFlagSets \cup {{"ofForceLoad"}} :
      \E lio \in (IF file = Untitled THEN {LoadOK} ELSE LoadIOs)
                  \cup (IF GetFileLength(State, file) > MaxFileSize
                        THEN {LoadDeclined} ELSE {}),
         decision \in (IF length = Size(State) THEN Decisions(TRUE) ELSE {"no"}) :
        /\ of \in OpenFlagSets \ {{}}
           => GetFileLength(State, file) > BackgroundOpenSize
        /\ "ofForceLoad" \in of => GetDocumentByName(State, file, FALSE) > 0
        /\ CommitIO(Open(State, file, of, decision, SaveOK, lio),
                    Open(State, file, of, decision, SaveOK, LoadOK), lio, "Open")

SaveAct ==
    \E sfSynchronous \in (IF Len(buffers[current].text) > BackgroundSaveSize
                          THEN BOOLEAN ELSE {FALSE}),
       sio \in SaveIOs,
       dlg \in (IF buffers[current].file = Untitled
                THEN {Untitled} \cup Paths ELSE {Untitled}) :
        CommitIO(Save(State, sfSynchronous, [sio EXCEPT !.dlg = dlg]),
                 Save(State, sfSynchronous, [SaveOK EXCEPT !.dlg = dlg]),
                 sio, "Save")

SaveAsAct ==
    \E p \in Paths, sio \in SaveIOs :
        CommitIO(SaveIfNotOpen(State, p, sio), SaveIfNotOpen(State, p, SaveOK),
                 sio, "SaveAs")

RevertAct ==
    \E lio \in LoadIOs :
        CommitIO(Revert(State, lio), Revert(State, LoadOK), lio, "Revert")

SwitchAct ==
    \E i \in 1..lengthVisible :
        /\ i # current
        /\ Commit(SetDocumentAt(State, i), "SetDocumentAt", FALSE)
        /\ UNCHANGED edits

\* The Close command: SaveIfUnsure, then Close unless that was cancelled;
\* the save that "yes" leads to goes well.
CloseAct ==
    \E decision \in Decisions(FALSE) :
        /\ Commit(CloseCommand(SaveIfUnsure(State, FALSE, FALSE, decision, SaveOK)),
                  "Close", FALSE)
        /\ UNCHANGED edits

\* The user types a character; a read-only document refuses, a change takes
\* the document off its save point.
EditAct ==
    /\ edits < MaxEdits
    /\ ~buffers[current].readOnly
    /\ Len(buffers[current].text) < MaxLen
    /\ Commit([State EXCEPT !.buffers[current].text = Append(@, 2),
                            !.buffers[current].isDirty = TRUE], "Edit", FALSE)
    /\ edits' = edits + 1

CancelLoadAct ==
    /\ buffers[current].pFileWorker # 0
    /\ IsLoading(State, buffers[current].pFileWorker)
    /\ ~workers[buffers[current].pFileWorker].cancelling
    /\ Commit(CancelLoad(State), "CancelLoad", FALSE)
    /\ UNCHANGED edits

AbandonAutomaticSaveAct ==
    /\ buffers[current].pFileWorker # 0
    /\ ~IsLoading(State, buffers[current].pFileWorker)
    /\ ~workers[buffers[current].pFileWorker].cancelling
    /\ Commit(AbandonAutomaticSave(State), "AbandonAutomaticSave", FALSE)
    /\ UNCHANGED edits

\* A loader's thread runs to its end: all of the file, or the chunks before
\* a read error or before the cancellation was seen.
LoaderExecuteAct ==
    \E w \in WorkerIds, e \in BOOLEAN :
        /\ workers[w].phase = "running"
        /\ workers[w].kind = "load"
        /\ \E n \in Boundaries(Len(ReadFile(State, workers[w].path))) :
            /\ ~e /\ ~workers[w].cancelling
                  => n = Len(ReadFile(State, workers[w].path))
            /\ e => n < Len(ReadFile(State, workers[w].path))
            /\ Commit(LoaderExecute(State, w, n, e), "LoaderExecute", e)
        /\ UNCHANGED edits

\* A storer's thread runs to its end: all of what its view shows, or the
\* chunks before a write error or before the cancellation was seen.
StorerExecuteAct ==
    \E w \in WorkerIds, e \in BOOLEAN :
        /\ workers[w].phase = "running"
        /\ workers[w].kind = "save"
        /\ \E t \in StorerViews(State, w) :
             \E n \in Boundaries(Len(t)) :
                /\ ~e /\ ~workers[w].cancelling => n = Len(t)
                /\ e => n < Len(t)
                /\ Commit(StorerExecute(State, w, t, n, e), "StorerExecute", e)
        /\ UNCHANGED edits

TextReadAct ==
    \E w \in WorkerIds :
        /\ workers[w].phase = "posted"
        /\ workers[w].kind = "load"
        /\ Commit(TextRead(State, w), "TextRead", FALSE)
        /\ UNCHANGED edits

TextWrittenAct ==
    \E w \in WorkerIds :
        /\ workers[w].phase = "posted"
        /\ workers[w].kind = "save"
        /\ Commit(TextWritten(State, w), "TextWritten", FALSE)
        /\ UNCHANGED edits

\* The Quit command; the saves that "yes" leads to go well.
QuitAct ==
    \E decision \in (IF \E i \in 1..lengthVisible : buffers[i].isDirty
                      THEN {"yes", "no", "cancel"} ELSE {"no"}) :
        /\ Commit(Quit(State, decision, SaveOK), "Quit", FALSE)
        /\ UNCHANGED edits

\* A Tools menu command, offered while no command is queued or running.
ToolsMenuAct ==
    /\ ~jobQueue.commandToRun
    /\ ~jobQueue.executing
    /\ Commit(ToolsMenu(State, SaveOK), "ToolsMenu", FALSE)
    /\ UNCHANGED edits

\* The command that was started ends.
CommandCompletedAct ==
    /\ jobQueue.executing
    /\ Commit(CommandCompleted(State), "CommandCompleted", FALSE)
    /\ UNCHANGED edits

Next ==
    \/ OpenAct
    \/ SaveAct
    \/ SaveAsAct
    \/ RevertAct
    \/ SwitchAct
    \/ CloseAct
    \/ EditAct
    \/ CancelLoadAct
    \/ AbandonAutomaticSaveAct
    \/ LoaderExecuteAct
    \/ StorerExecuteAct
    \/ TextReadAct
    \/ TextWrittenAct

Spec == Init /\ [][Next]_vars

\* The session with its end and with the Tools menu: files are opened,
\* edited, saved and closed, and the user may also quit and queue a command.
NextSession ==
    \/ OpenAct
    \/ SaveAct
    \/ SaveAsAct
    \/ SwitchAct
    \/ CloseAct
    \/ EditAct
    \/ LoaderExecuteAct
    \/ StorerExecuteAct
    \/ TextReadAct
    \/ TextWrittenAct
    \/ QuitAct
    \/ ToolsMenuAct
    \/ CommandCompletedAct

SpecSession == Init /\ [][NextSession]_vars

\* The application is activated: SciTEBase::Activate runs CheckReload.  The
\* save that "yes" to "Save changes?" leads to goes well.
CheckReloadAct ==
    \E sure \in (IF buffers[current].isDirty THEN {FALSE} ELSE BOOLEAN) :
      \E decision \in (IF buffers[current].isDirty \/ sure
                       THEN {"yes", "no"} ELSE {"no"}),
         lio \in LoadIOs,
         decisionSave \in (IF length = Size(State) THEN Decisions(TRUE) ELSE {"no"}) :
        CommitIO(CheckReload(State, decision, sure, decisionSave, SaveOK, lio),
                 CheckReload(State, decision, sure, decisionSave, SaveOK, LoadOK),
                 lio, "CheckReload")

\* What another program does to a file some buffer has: it is counted in
\* what the run has used, and leaves the editor as it is.
Outside(p) ==
    /\ ~exited
    /\ \E i \in 1..length : buffers[i].file = p
    /\ spent' = spent + 1
    /\ spent' <= MaxSpent
    /\ last' = Quiet
    /\ UNCHANGED <<buffers, length, lengthVisible, current, workers, edits,
                   quitting, exited, jobQueue, convert, lua>>

\* Another program writes file p anew, at a later time.
FileModifiedAct ==
    \E p \in Paths :
        /\ disk[p].exists
        /\ now < MaxTime
        /\ now' = now + 1
        /\ disk' = [disk EXCEPT ![p].time = now + 1]
        /\ Outside(p)

\* Another program moves file p away.
FileDeletedAct ==
    \E p \in Paths :
        /\ disk[p].exists
        /\ disk' = [disk EXCEPT ![p].exists = FALSE]
        /\ UNCHANGED now
        /\ Outside(p)

\* Another program moves file p back: it has the bytes and the modification
\* time it had.
FileRestoredAct ==
    \E p \in Paths :
        /\ ~disk[p].exists
        /\ disk[p].time # 0
        /\ disk' = [disk EXCEPT ![p].exists = TRUE]
        /\ UNCHANGED now
        /\ Outside(p)

\* The session with the application activated from time to time and with
\* other programs at work on the files; the user opens and edits files
\* and moves between the buffers.
NextReload ==
    \/ OpenAct
    \/ SwitchAct
    \/ EditAct
    \/ LoaderExecuteAct
    \/ TextReadAct
    \/ CheckReloadAct
    \/ FileModifiedAct
    \/ FileDeletedAct
    \/ FileRestoredAct

SpecReload == Init /\ [][NextReload]_vars

\* Loading and saving files of several encodings: path 2 holds the byte
\* order mark alone, the mark and a character, or 8-bit text that begins
\* with the first byte of the mark.
EncodingFiles == {BOM, BOM \o <<1>>, <<2, 1>>}

InitEncoding ==
    /\ InitEditor
    /\ \E f \in EncodingFiles : disk = InitDisk(f)
    /\ convert = ConvertIdle

NextEncoding ==
    \/ OpenAct
    \/ SaveAct
    \/ EditAct
    \/ LoaderExecuteAct
    \/ StorerExecuteAct
    \/ TextReadAct
    \/ TextWrittenAct

SpecEncoding == InitEncoding /\ [][NextEncoding]_vars

\* Opening large files: path 2 holds a file longer than max.file.size, one
\* that OpenCurrentFile cannot allocate for, or one longer than INTPTR_MAX.
SizeFiles == {BOM \o <<1, 1, 1>>, <<1, 1, 1, 1, 1, 1>>, <<1, 1, 1, 1, 1, 1, 1, 1>>}

InitSize ==
    /\ InitEditor
    /\ \E f \in SizeFiles : disk = InitDisk(f)
    /\ convert = ConvertIdle

SpecSize == InitSize /\ [][NextEncoding]_vars

\* Buffers closed while their saves run in the background: the registry has
\* one slot more, so that two buffers can be invisible beside the visible
\* one; files are opened, saved and closed.
ManyBuffers == BufferSize + 1

InitInvisible ==
    /\ InitBuffers(ManyBuffers)
    /\ disk = InitDisk(BOM \o <<1, 1>>)
    /\ convert = ConvertIdle

NextInvisible ==
    \/ OpenAct
    \/ SaveAct
    \/ CloseAct
    \/ LoaderExecuteAct
    \/ StorerExecuteAct
    \/ TextReadAct
    \/ TextWrittenAct

SpecInvisible == InitInvisible /\ [][NextInvisible]_vars

\* Files opened and buffers saved under other names: sequences of Open and
\* Save As, with the workers they start and the completions of those.
NextPaths ==
    \/ OpenAct
    \/ SaveAsAct
    \/ LoaderExecuteAct
    \/ StorerExecuteAct
    \/ TextReadAct
    \/ TextWrittenAct

SpecPaths == Init /\ [][NextPaths]_vars

\* Loads and their completions: files are opened and the buffers switched;
\* a loader thread that has been started runs to its end, and a completion
\* that has been posted is processed.
NextLoading ==
    \/ OpenAct
    \/ SwitchAct
    \/ LoaderExecuteAct
    \/ TextReadAct

SpecLoading ==
    /\ Init
    /\ [][NextLoading]_vars
    /\ WF_vars(LoaderExecuteAct)
    /\ WF_vars(TextReadAct)

\* Time passes; no file is touched.
TickAct ==
    /\ ~exited
    /\ now < MaxTime
    /\ now' = now + 1
    /\ UNCHANGED <<buffers, length, lengthVisible, current, disk, workers, spent,
                   edits, quitting, exited, jobQueue, last, convert, lua>>

\* Saving with the application activated from time to time: files are
\* opened and saved while time passes, and no other program touches them.
NextSaving ==
    \/ OpenAct
    \/ SaveAct
    \/ LoaderExecuteAct
    \/ StorerExecuteAct
    \/ TextReadAct
    \/ TextWrittenAct
    \/ CheckReloadAct
    \/ TickAct

SpecSaving == Init /\ [][NextSaving]_vars

\* The scripting extension on its own.  The host tells it of a buffer it
\* has made or recycled (InitBuffer), of the buffer it has switched to
\* (ActivateBuffer: a buffer it has told of) and of a buffer it has closed
\* (RemoveBuffer: likewise); the global scope is initialised when scripts
\* are loaded or cleared (Load, Clear, OnSave of a script), and a script
\* that runs (an event handler, OnExecute, Load with a Lua state present)
\* stores a value in the table it finds as the global 'buffer', which is
\* the one published last.
LuaCall(L, name, index) ==
    /\ lua' = [L EXCEPT !.op = <<name, index,
                                 IF index >= 0 THEN lua.array[index] ELSE Nil>>]
    /\ UNCHANGED <<buffers, length, lengthVisible, current, disk, now, workers,
                   spent, edits, quitting, exited, jobQueue, last, convert>>

InitBufferAct ==
    \E index \in 0..MaxIndex :
        /\ index <= lua.maxBufferIndex + 1
        /\ LuaCall(InitBuffer(lua, index), "InitBuffer", index)

ActivateBufferAct ==
    \E index \in 0..MaxIndex :
        /\ index <= lua.maxBufferIndex
        /\ LuaCall(ActivateBuffer(lua, index), "ActivateBuffer", index)

RemoveBufferAct ==
    \E index \in 0..MaxIndex :
        /\ index <= lua.maxBufferIndex
        /\ LuaCall(RemoveBuffer(lua, index), "RemoveBuffer", index)

InitGlobalScopeAct ==
    \E reload \in BOOLEAN :
        LuaCall(InitGlobalScope(lua, reload), "InitGlobalScope", -1)

ScriptAct ==
    \E value \in 1..MaxData :
        /\ lua.luaState
        /\ lua.buffer # Nil
        /\ LuaCall(StoreInBuffer(lua, value), "Script", -1)

NextLua ==
    \/ InitBufferAct
    \/ ActivateBufferAct
    \/ RemoveBufferAct
    \/ InitGlobalScopeAct
    \/ ScriptAct

SpecLua == Init /\ [][NextLua]_vars

\* The decoder on its own: a reader is given a byte stream in chunks of any
\* lengths, then the empty chunk.
Bytes == {1, 2}

Streams == UNION {[1..n -> Bytes] : n \in 0..MaxStream}

InitCodec ==
    /\ InitEditor
    /\ disk = InitDisk(BOM \o <<1, 1>>)
    /\ \E s \in Streams : convert = ConvertStart(s)

\* The reader is given the next n bytes of the stream as one chunk.
FeedAct ==
    /\ ~convert.flushed
    /\ \E n \in 1..Len(convert.rest) :
         convert' = [convert EXCEPT
                        !.reader = Convert(@, Prefix(convert.rest, n)),
                        !.chunks = Append(@, Prefix(convert.rest, n)),
                        !.rest = SubSeq(@, n + 1, Len(@))]
    /\ UNCHANGED <<buffers, length, lengthVisible, current, disk, now, workers,
                   spent, edits, quitting, exited, jobQueue, last, lua>>

\* The stream is at its end: the reader is given the empty chunk.
FlushAct ==
    /\ ~convert.flushed
    /\ convert.rest = <<>>
    /\ convert' = [convert EXCEPT !.reader = Convert(@, <<>>), !.flushed = TRUE]
    /\ UNCHANGED <<buffers, length, lengthVisible, current, disk, now, workers,
                   spent, edits, quitting, exited, jobQueue, last, lua>>

NextCodec == FeedAct \/ FlushAct

SpecCodec == InitCodec /\ [][NextCodec]_vars

---------------------------------------------------------------------------
\* Properties.

\* The buffers that own worker w.
Owners(w) == {i \in 1..length : buffers[i].pFileWorker = w}

\* Buffer i owns a storer.
HasStorer(i) ==
    /\ buffers[i].pFileWorker # 0
    /\ workers[buffers[i].pFileWorker].kind = "save"

\* C1: in every reachable state no buffer has more than one worker in
\* flight: every worker whose thread runs or whose completion is still to be
\* processed is the worker of exactly one buffer, so that a load or save
\* asked of a buffer that has a worker has not put a second one beside it.
C1_OneWorkerPerBuffer ==
    \A w \in WorkerIds : InFlight(State, w) => Cardinality(Owners(w)) = 1

\* C1, its case: Save was asked of a buffer whose worker is in flight and
\* turned away, while another buffer has a worker in flight too.
C1_SaveTurnedAway ==
    /\ last.op = "Save"
    /\ "AlreadyBeingSaved" \in last.msgs
    /\ InFlight(State, buffers[current].pFileWorker)
    /\ \E i \in 1..length :
          /\ i # current
          /\ buffers[i].pFileWorker # 0
          /\ InFlight(State, buffers[i].pFileWorker)

\* C2: in every reachable state a buffer's worker handle is non-null if and
\* only if the buffer is reading or owns a storer.
C2_HandleIffReadingOrStoring ==
    \A i \in 1..length :
        buffers[i].pFileWorker # 0
            <=> (buffers[i].lifeState = "reading" \/ HasStorer(i))

C4_FailedLoadNotSavable ==
    \A i \in 1..length :
        buffers[i].loadHist = "failed" => ShouldNotSave(buffers[i])

\* The current buffer owns an active loader or has not finished loading.
Loading ==
    \/ buffers[current].lifeState \in {"reading", "readAll"}
    \/ /\ buffers[current].pFileWorker # 0
       /\ IsLoading(State, buffers[current].pFileWorker)
       /\ InFlight(State, buffers[current].pFileWorker)

\* C5: while the current buffer owns an active loader or has not finished
\* loading, Save returns true and SaveIfUnsure (the Close command) returns
\* cancelled without asking, and neither touches a file or starts a worker.
C5_NoSaveWhileLoading ==
    [][/\ Loading /\ last'.op = "Save"
            => last'.ret = "true" /\ disk' = disk /\ workers' = workers
       /\ Loading /\ last'.op = "Close"
            => /\ last'.ret = "cancelled"
               /\ "SaveChangesQuestion" \notin last'.msgs
               /\ disk' = disk /\ workers' = workers]_vars

\* The buffer whose storer's completion this step processes (0: no buffer
\* owns that storer).
Completing ==
    LET done == {w \in WorkerIds : /\ workers[w].phase = "posted"
                                   /\ workers'[w].phase # "posted"}
    IN IF done = {} THEN 0 ELSE GetDocumentByWorker(State, CHOOSE w \in done : TRUE)

C7_FailedStorerRestoresBuffer ==
    [][/\ last'.op = "TextWritten"
       /\ last'.werr \in {"err", "cancelled"}
       /\ last'.hit # 0
       => /\ last'.hit <= lengthVisible'
          /\ buffers'[last'.hit].readOnly = buffers'[last'.hit].isReadOnly
          /\ buffers[Completing].isDirty => buffers'[last'.hit].isDirty
          /\ last'.werr = "err" => "FailedSave" \in last'.msgs]_vars

\* C8: what a background save that ran to its end has written is the text
\* the document had when SaveBuffer started the storer, whatever edits,
\* buffer switches and Open calls came before its completion is processed.
C8_StorerWritesSnapshot ==
    \A w \in WorkerIds :
        /\ workers[w].kind = "save"
        /\ workers[w].phase = "posted"
        /\ ~workers[w].err
        /\ ~workers[w].cancelling
        => workers[w].bytes = workers[w].snapshot

\* C9: a successful background save clears the dirty state of a buffer only
\* when the path the storer wrote is the path the buffer has when the dirty
\* state is cleared, in TextWritten or in the deferred FinishSave (cleared
\* holds, for each dirty buffer made clean, the path written and the
\* buffer's path).
C9_SavePointOnlyForSavedPath ==
    \A pair \in last.cleared : pair[1] = pair[2]

---------------------------------------------------------------------------
\* Failed loads.

\* The step is a Revert in which a system call of the reload failed.
RevertFailed ==
    \E lio \in LoadFaults :
        CommitIO(Revert(State, lio), Revert(State, LoadOK), lio, "Revert")

\* The step is an Open of a file no buffer has, in which a system call of
\* the load failed.
OpenFailed ==
    \E file \in Paths, of \in OpenFlagSets, lio \in LoadFaults,
       decision \in {"yes", "no", "cancel"} :
        /\ GetDocumentByName(State, file, FALSE) = 0
        /\ CommitIO(Open(State, file, of, decision, SaveOK, lio),
                    Open(State, file, of, decision, SaveOK, LoadOK), lio, "Open")

\* The step is TextRead processing the completion of a loader that met a
\* read error or was cancelled, and the loader has an owner.
TextReadFailed ==
    /\ last'.op = "TextRead"
    /\ last'.hit # 0
    /\ last'.werr \in {"err", "cancelled"}

\* A buffer that is empty and usable: it holds no text, takes edits and
\* can be saved.
EmptyUsable(b) == b.text = <<>> /\ ~b.readOnly /\ ~ShouldNotSave(b)

\* C11: when a load fails or is cancelled, a reload (Revert) leaves the
\* content the buffer had before, and a fresh open leaves the buffer empty
\* and usable; on the synchronous path, on the asynchronous path, and when
\* the file cannot be opened.  Every load a loader runs is a fresh open: a
\* reload is synchronous here.
C11_FailedLoadLeavesDocument ==
    [][/\ RevertFailed => buffers'[current'].text = buffers[current].text
       /\ OpenFailed => EmptyUsable(buffers'[current'])
       /\ TextReadFailed => EmptyUsable(buffers'[last'.hit])]_vars


---------------------------------------------------------------------------
\* Foreground and background loads.

\* The step is an Open of file, which no buffer has, with flags of; room
\* was made for it and every system call succeeded.
OpenLoads(file, of) ==
    \E decision \in {"yes", "no", "cancel"} :
        /\ GetDocumentByName(State, file, FALSE) = 0
        /\ Open(State, file, of, decision, SaveOK, LoadOK).ret = "true"
        /\ CommitIO(Open(State, file, of, decision, SaveOK, LoadOK),
                    Open(State, file, of, decision, SaveOK, LoadOK), LoadOK, "Open")

\* The current buffer is being loaded by a loader.
LoadingInBackground(bs, ws, c) ==
    /\ bs[c].pFileWorker # 0
    /\ ws[bs[c].pFileWorker].kind = "load"
    /\ bs[c].lifeState = "reading"

\* The current buffer holds all of file and no load is going on.
LoadFinished(bs, c, file) ==
    /\ bs[c].pFileWorker = 0
    /\ bs[c].lifeState = "opened"
    /\ bs[c].file = file
    /\ bs[c].text = Decode(disk[file].bytes)

\* C12: Open loads a titled file in the background if and only if the file
\* is longer than background.open.size and the caller set neither
\* ofSynchronous nor ofPreserveUndo; in every other case the load is
\* finished when Open returns.
C12_AsynchronousIffLargeAndNotForced ==
    [][\A file \in Paths, of \in OpenFlagSets :
         OpenLoads(file, of) =>
           IF /\ GetFileLength(State, file) > BackgroundOpenSize
              /\ "ofSynchronous" \notin of /\ "ofPreserveUndo" \notin of
           THEN LoadingInBackground(buffers', workers', current')
           ELSE LoadFinished(buffers', current', file)]_vars


\* The loaders whose thread runs or whose completion TextRead has not
\* processed yet.
LoadersInFlight(ws) ==
    {w \in WorkerIds : ws[w].kind = "load" /\ ws[w].phase \in {"running", "posted"}}

\* C13: when a file longer than background.open.size is opened, a loader is
\* started and Open returns while its thread still runs, and the buffer's
\* lifeState is reading in every state from then until TextRead processes
\* that loader's completion.
C13_ReadingUntilTextRead ==
    [][/\ \A file \in Paths :
            /\ OpenLoads(file, {})
            /\ GetFileLength(State, file) > BackgroundOpenSize
            => /\ LoadingInBackground(buffers', workers', current')
               /\ workers'[buffers'[current'].pFileWorker].phase = "running"
       /\ \A w \in LoadersInFlight(workers') :
            \E i \in 1..length' : /\ buffers'[i].pFileWorker = w
                                  /\ buffers'[i].lifeState = "reading"]_vars


\* C14: when an existing readable file not longer than background.open.size
\* is opened, then when Open returns the buffer owns no worker, its
\* lifeState is opened and it is not dirty.
C14_ForegroundLoadLeavesOpened ==
    [][\A file \in Paths :
         /\ OpenLoads(file, {})
         /\ disk[file].exists
         /\ GetFileLength(State, file) <= BackgroundOpenSize
         => /\ buffers'[current'].file = file
            /\ buffers'[current'].pFileWorker = 0
            /\ buffers'[current'].lifeState = "opened"
            /\ ~buffers'[current'].isDirty]_vars


---------------------------------------------------------------------------
\* Completions and the buffer they are applied to.

\* The step is TextRead / TextWritten processing the completion of worker w.
TextReadStep(w) ==
    /\ last'.op = "TextRead"
    /\ workers[w].phase = "posted"
    /\ workers[w].kind = "load"
    /\ Commit(TextRead(State, w), "TextRead", FALSE)

TextWrittenStep(w) ==
    /\ last'.op = "TextWritten"
    /\ workers[w].phase = "posted"
    /\ workers[w].kind = "save"
    /\ Commit(TextWritten(State, w), "TextWritten", FALSE)

\* What a completion may change in a buffer: lifeState, encoding, dirty
\* state, worker and visibility; and the file and text that tell buffers
\* apart.
Attributes(bs, lv, j) ==
    [file |-> bs[j].file, text |-> bs[j].text,
     lifeState |-> bs[j].lifeState, unicodeMode |-> bs[j].unicodeMode,
     isDirty |-> bs[j].isDirty, pFileWorker |-> bs[j].pFileWorker,
     visible |-> j <= lv]

\* The buffers of a registry other than the one in slot i (0: none); slots
\* move when a buffer is made visible or removed, so they are compared as
\* a bag: same says that two such bags are equal.
Others(len, i) == (1..len) \ {i}

SameOthers(bs, len, lv, i, bt, lent, lvt, it) ==
    \A a \in {Attributes(bs, lv, j) : j \in Others(len, i)}
             \cup {Attributes(bt, lvt, j) : j \in Others(lent, it)} :
        Cardinality({j \in Others(len, i) : Attributes(bs, lv, j) = a})
            = Cardinality({j \in Others(lent, it) : Attributes(bt, lvt, j) = a})

\* Handler result S leaves every buffer as it is in lifeState, encoding,
\* dirty state, worker and visibility.
NoBufferChanged(S) ==
    /\ S.length = length
    /\ S.lengthVisible = lengthVisible
    /\ \A j \in 1..length :
         Attributes(S.buffers, S.lengthVisible, j) = Attributes(buffers, lengthVisible, j)

\* TextRead has applied the completion of loader w to its owner.
TextReadApplied(w, i) ==
    /\ last'.hit = i
    /\ buffers'[i].unicodeMode = workers[w].unicodeMode
    /\ buffers'[i].lifeState # "reading"
    /\ length' = length /\ lengthVisible' = lengthVisible
    /\ SameOthers(buffers, length, lengthVisible, i,
                  buffers', length', lengthVisible', i)

\* TextWritten has applied the completion of storer w to its owner: the
\* worker is released; after a failed or cancelled save the buffer is
\* visible, after a good one an invisible buffer is gone.
TextWrittenApplied(w, i) ==
    IF workers[w].err \/ workers[w].cancelling
    THEN /\ length' = length
         /\ last'.hit <= lengthVisible'
         /\ buffers'[last'.hit].pFileWorker = 0
         /\ SameOthers(buffers, length, lengthVisible, i,
                       buffers', length', lengthVisible', last'.hit)
    ELSE IF i > lengthVisible
    THEN /\ length' = length - 1
         /\ lengthVisible' = lengthVisible
         /\ SameOthers(buffers, length, lengthVisible, i,
                       buffers', length', lengthVisible', 0)
    ELSE /\ length' = length /\ lengthVisible' = lengthVisible
         /\ buffers'[i].pFileWorker = 0
         /\ SameOthers(buffers, length, lengthVisible, i,
                       buffers', length', lengthVisible', i)

\* C15: TextRead and TextWritten apply their state changes (encoding,
\* lifeState, release of the worker, visibility) to the buffer that owns
\* the completed worker, whichever buffer is current, and leave the other
\* buffers alone; for a worker that no buffer owns they change no buffer's
\* lifeState, encoding, dirty state or visibility.
C15_CompletionGoesToOwner ==
    [][\A w \in WorkerIds :
         /\ GetDocumentByWorker(State, w) = 0
            => /\ NoBufferChanged(TextRead(State, w))
               /\ NoBufferChanged(TextWritten(State, w))
         /\ TextReadStep(w) /\ GetDocumentByWorker(State, w) # 0
            => TextReadApplied(w, GetDocumentByWorker(State, w))
         /\ TextWrittenStep(w) /\ GetDocumentByWorker(State, w) # 0
            => TextWrittenApplied(w, GetDocumentByWorker(State, w))]_vars

\* TextRead has processed the completion of a loader whose buffer is not
\* the current one.
C15_LoadCompletedForOtherBuffer ==
    /\ last.op = "TextRead"
    /\ last.hit \notin {0, current}
    /\ buffers[last.hit].lifeState \in {"readAll", "empty"}


---------------------------------------------------------------------------
\* The OnOpen notification.

\* The step is an Open of a file no buffer has, and Open tells / does not
\* tell the extension OnOpen.
OpenStep(file, of, notifies) ==
    /\ last'.op = "other"
    /\ spent' > spent
    /\ buffers'[current'].file = file
    /\ GetDocumentByName(State, file, FALSE) = 0
    /\ \E lio \in LoadIOs,
          decision \in (IF length = Size(State) THEN Decisions(TRUE) ELSE {"no"}) :
        /\ Open(State, file, of, decision, SaveOK, lio).ret = "true"
        /\ notifies = ("OnOpen" \in Open(State, file, of, decision, SaveOK, lio).msgs)
        /\ CommitIO(Open(State, file, of, decision, SaveOK, lio),
                    Open(State, file, of, decision, SaveOK, LoadOK), lio, "Open")

\* C16: when a load completion is processed, CompleteOpen, the OnOpen
\* notification and the restoration of caret and scroll state happen if
\* and only if the owning buffer is the current one; the Open call that
\* starts a background load does not issue OnOpen, and the Open call that
\* loads in the foreground does.  A load thus notifies OnOpen in the one
\* step that completes it for the current buffer, exactly once.
C16_OnOpenOnceForCurrentBuffer ==
    [][/\ \A w \in WorkerIds :
            TextReadStep(w) /\ GetDocumentByWorker(State, w) # 0
            => LET i == GetDocumentByWorker(State, w)
               IN IF i = current
                  THEN /\ {"OnOpen", "RestoreState"} \subseteq last'.msgs
                       /\ buffers'[i].lifeState = "opened"
                       /\ buffers'[i].pFileWorker = 0
                  ELSE /\ last'.msgs \cap {"OnOpen", "RestoreState"} = {}
                       /\ buffers'[i].lifeState \in {"readAll", "empty"}
                       /\ buffers'[i].pFileWorker = w
       /\ \A file \in Paths, of \in OpenFlagSets :
            /\ OpenStep(file, of, TRUE)
               => ~LoadingInBackground(buffers', workers', current')
            /\ OpenStep(file, of, FALSE)
               => ~LoadFinished(buffers', current', file)]_vars

\* TextRead has completed the load of the current buffer and issued OnOpen.
C16_OnOpenFromTextRead ==
    /\ last.op = "TextRead"
    /\ last.hit = current
    /\ "OnOpen" \in last.msgs


---------------------------------------------------------------------------
\* Closed buffers that are still being saved.

\* The storers whose thread runs or whose completion TextWritten has not
\* processed yet, and whose buffer is invisible (closed).
InvisibleStorers ==
    {w \in WorkerIds : /\ workers[w].kind = "save"
                       /\ workers[w].phase \in {"running", "posted"}
                       /\ GetDocumentByWorker(State, w) > lengthVisible}

\* C17: an invisible buffer with an outstanding storer is not removed from
\* the registry before TextWritten has processed that storer's completion;
\* TextWritten then removes it when the save succeeded, and makes it
\* visible again, and does not remove it, when the save failed or was
\* cancelled.
C17_InvisibleKeptUntilTextWritten ==
    [][\A w \in InvisibleStorers :
         IF ~TextWrittenStep(w)
         THEN \E j \in 1..length' : buffers'[j].pFileWorker = w
         ELSE IF workers[w].err \/ workers[w].cancelling
         THEN /\ length' = length
              /\ lengthVisible' = lengthVisible + 1
              /\ last'.hit <= lengthVisible'
              /\ buffers'[last'.hit].file = buffers[GetDocumentByWorker(State, w)].file
              /\ buffers'[last'.hit].text = buffers[GetDocumentByWorker(State, w)].text
              /\ SameOthers(buffers, length, lengthVisible, GetDocumentByWorker(State, w),
                            buffers', length', lengthVisible', last'.hit)
         ELSE /\ length' = length - 1
              /\ lengthVisible' = lengthVisible
              /\ SameOthers(buffers, length, lengthVisible, GetDocumentByWorker(State, w),
                            buffers', length', lengthVisible', 0)]_vars

\* TextWritten has removed an invisible buffer whose save succeeded.
C17_InvisibleRemovedAfterSave ==
    /\ last.op = "TextWritten"
    /\ last.werr = "ok"
    /\ last.hit > length


---------------------------------------------------------------------------
\* Quitting and the queued command.

\* A storer's thread runs or its completion has not been processed yet.
StorerOutstanding(ws) ==
    \E w \in WorkerIds : ws[w].kind = "save" /\ ws[w].phase \in {"running", "posted"}

\* C18: while quitting, save completion calls QuitProgram only in a state
\* where no storer is outstanding in any buffer; and SaveIfUnsureAll does
\* not release the document of a buffer that still owns a worker: no
\* buffer that owns a worker is without its document.
C18_QuitAfterLastStorer ==
    [][/\ last'.op = "TextWritten" /\ "QuitProgram" \in last'.msgs
          => /\ quitting
             /\ ~StorerOutstanding(workers')
             /\ \A i \in 1..length' :
                  buffers'[i].pFileWorker = 0
                  \/ workers'[buffers'[i].pFileWorker].kind # "save"
       /\ \A i \in 1..length' :
            buffers'[i].pFileWorker # 0 => buffers'[i].doc]_vars

\* Save completion has called QuitProgram; SaveIfUnsureAll had released
\* the document of one buffer and kept that of the buffer being saved.
C18_QuitFromTextWritten ==
    /\ last.op = "TextWritten"
    /\ "QuitProgram" \in last.msgs
    /\ exited
    /\ \E i, j \in 1..length : ~buffers[i].doc /\ buffers[j].doc

newModTime == ModifiedTime(State, buffers[current].file)

\* This step is a run of CheckReload that asks the user whether to reload.
ReloadAsked == last'.op = "CheckReload" /\ "ReloadQuestion" \in last'.msgs

---------------------------------------------------------------------------
\* Activation: what CheckReload does about a changed or a missing file.

\* This step is a run of CheckReload with these inputs.
CheckReloadStep(decision, sure, decisionSave, lio) ==
    /\ last'.op = "CheckReload"
    /\ CommitIO(CheckReload(State, decision, sure, decisionSave, SaveOK, lio),
                CheckReload(State, decision, sure, decisionSave, SaveOK, LoadOK),
                lio, "CheckReload")

\* The file of the current buffer has a time, and not the one the buffer has.
Changed == newModTime # 0 /\ newModTime # buffers[current].fileModTime

\* The step has begun a load of the file into the current buffer: the file
\* was opened and the buffer has taken its time.
Reloaded == buffers'[current'].fileModTime = newModTime

\* The step has left the current buffer and the workers as they were.
Untouched ==
    /\ current' = current
    /\ workers' = workers
    /\ buffers'[current].text = buffers[current].text
    /\ buffers'[current].lifeState = buffers[current].lifeState
    /\ buffers'[current].isDirty = buffers[current].isDirty
    /\ buffers'[current].pFileWorker = buffers[current].pFileWorker
    /\ buffers'[current].fileModTime = buffers[current].fileModTime

DeletionKnown(bs, d, i) ==
    /\ bs[i].fileModTime = 0
    /\ bs[i].file = Untitled \/ ~d[bs[i].file].exists

\* C22: an activation that finds no file where the buffer has a time for one
\* makes the buffer dirty, says that the file has been deleted, begins no
\* load and leaves the text and the workers as they were; from then on, as
\* long as the file stays missing, the buffer knows of the deletion, and an
\* activation of a buffer that knows of it changes nothing and shows nothing.
C22_DeletionReportedOnce ==
    [][/\ (last'.op = "CheckReload" /\ newModTime = 0
                                    /\ buffers[current].fileModTime # 0)
          => /\ buffers'[current].isDirty
             /\ "HasBeenDeleted" \in last'.msgs
             /\ current' = current /\ workers' = workers /\ disk' = disk
             /\ buffers'[current].text = buffers[current].text
             /\ buffers'[current].lifeState = buffers[current].lifeState
             /\ buffers'[current].pFileWorker = buffers[current].pFileWorker
             /\ DeletionKnown(buffers', disk', current)
       /\ (last'.op = "CheckReload" /\ DeletionKnown(buffers, disk, current))
          => /\ last'.msgs = {}
             /\ buffers' = buffers /\ workers' = workers /\ disk' = disk
             /\ current' = current /\ length' = length
       /\ \A i \in 1..length :
             (/\ DeletionKnown(buffers, disk, i)
              /\ buffers'[i].file = buffers[i].file
              /\ buffers[i].file # Untitled
              /\ ~disk'[buffers[i].file].exists)
             => DeletionKnown(buffers', disk', i)]_vars

\* C22, its case: the application was activated again while the file of
\* the current buffer, reported as deleted, was still missing, and nothing
\* was shown.
C22_SilentWhileMissing ==
    /\ last.op = "CheckReload"
    /\ last.msgs = {}
    /\ buffers[current].file # Untitled
    /\ ~disk[buffers[current].file].exists
    /\ buffers[current].isDirty
    /\ buffers[current].text # <<>>
    /\ buffers[current].fileModTime = 0


---------------------------------------------------------------------------
\* Revert.

\* The step is a Revert of a buffer whose file exists, is short and has the
\* buffer's encoding, no system call failing.
RevertShortStep ==
    /\ buffers[current].file # Untitled
    /\ disk[buffers[current].file].exists
    /\ GetFileLength(State, buffers[current].file) < RevertShortLimit
    /\ buffers[current].unicodeMode = Encoding(disk[buffers[current].file].bytes)
    /\ CommitIO(Revert(State, LoadOK), Revert(State, LoadOK), LoadOK, "Revert")

\* What CommonEnds finds between the document and the text of its file.
RevertEnds ==
    CommonEnds(buffers[current].text, Decode(disk[buffers[current].file].bytes))

\* The document after Revert is the document before it with the part
\* between the common start and the common end replaced by the file's.
RevertReplacedMiddle ==
    LET doc == buffers[current].text
        new == Decode(disk[buffers[current].file].bytes)
    IN /\ RevertEnds.start + RevertEnds.last <= Min(Len(doc), Len(new))
       /\ buffers'[current'].text =
              SubSeq(doc, 1, RevertEnds.start)
              \o SubSeq(new, RevertEnds.start + 1, Len(new) - RevertEnds.last)
              \o SubSeq(doc, Len(doc) - RevertEnds.last + 1, Len(doc))

\* C23: for a short file whose encoding is the buffer's, Revert leaves the
\* document text equal to the text of the file (its content without the byte
\* order mark), by replacing the range between the common start and the
\* common end of the two texts, which do not overlap in either; when the
\* texts are equal already the document is not modified; in both cases the
\* save point is set.
C23_RevertInPlace ==
    [][RevertShortStep
       => /\ buffers'[current'].text = Decode(disk[buffers[current].file].bytes)
          /\ RevertReplacedMiddle
          /\ ~buffers'[current'].isDirty]_vars


\* The step is a Revert, with system calls going as lio says, of a buffer
\* whose file Revert does not compare in place: the file is not short, or
\* the buffer's encoding is not one Revert compares in, or the buffer is
\* UTF-8 and the file does not begin with the byte order mark.
RevertFullStep(lio) ==
    /\ buffers[current].file # Untitled
    /\ \/ GetFileLength(State, buffers[current].file) >= RevertShortLimit
       \/ buffers[current].unicodeMode \notin RevertInPlaceModes
       \/ /\ buffers[current].unicodeMode = "utf8"
          /\ ~IsPrefix(BOM, ReadFile(State, buffers[current].file))
    /\ CommitIO(Revert(State, lio), Revert(State, LoadOK), lio, "Revert")

\* C24, as stated: when the file is not short, or the buffer's encoding
\* does not allow the comparison in place, or the byte order mark expected is
\* missing, Revert starts a loader for the buffer, which reports reading.
C24_RevertReloadsInBackground ==
    [][\A lio \in {LoadOK} :
          RevertFullStep(lio) /\ buffers[current].pFileWorker = 0
          => /\ buffers'[current'].pFileWorker # 0
             /\ workers'[buffers'[current'].pFileWorker].kind = "load"
             /\ buffers'[current'].lifeState = "reading"]_vars

\* C24, amended: in those cases Revert reloads the whole file in the
\* foreground.  No worker is started and no buffer gets or loses a worker; a
\* buffer that owns no worker and whose file opens (and is not too large to
\* be held in memory) is opened and at a save point when Revert returns, and
\* holds the text of the file if no read fails and the document takes
\* modifications; a buffer that owns a worker, or whose file does not open
\* or is too large, is left as it was.
C24_RevertReloadsInForeground ==
    [][\A lio \in {LoadOK} \cup LoadFaults :
          RevertFullStep(lio)
          => /\ workers' = workers
             /\ \A i \in 1..BufferSize :
                    buffers'[i].pFileWorker = buffers[i].pFileWorker
             /\ IF /\ buffers[current].pFileWorker = 0
                   /\ GetFileLength(State, buffers[current].file) + AllocationSlack
                          < PtrdiffMax
                   /\ disk[buffers[current].file].exists
                   /\ lio.fpOk
                THEN /\ buffers'[current'].lifeState = "opened"
                     /\ ~buffers'[current'].isDirty
                     /\ (lio = LoadOK /\ ~buffers[current].readOnly)
                        => buffers'[current'].text =
                               Decode(disk[buffers[current].file].bytes)
                ELSE buffers' = buffers]_vars

\* C24, its case: Revert has reloaded in the foreground a file too long to
\* be compared in place; the buffer, which was dirty, is opened, owns no
\* worker and holds the text of the file.
C24_LongFileReverted ==
    /\ last.op = "Revert"
    /\ buffers[current].file # Untitled
    /\ GetFileLength(State, buffers[current].file) >= RevertShortLimit
    /\ buffers[current].lifeState = "opened"
    /\ buffers[current].pFileWorker = 0
    /\ edits = 1
    /\ buffers[current].text = Decode(disk[buffers[current].file].bytes)

---------------------------------------------------------------------------
\* One buffer per file.

\* No two buffers of the registry have the same file, untitled buffers
\* apart.
PathsDistinct(bs, len) ==
    \A i, j \in 1..len :
        (i # j /\ bs[i].file # Untitled) => bs[i].file # bs[j].file

\* What Open does, with flags of, in the state reached: the file is one
\* some buffer has; without ofForceLoad nothing is loaded and the user is
\* asked nothing.
OpenOfOpen(file, of) ==
    {Open(State, file, of, decision, SaveOK, lio) :
        lio \in (IF "ofForceLoad" \in of THEN {LoadOK} \cup LoadFaults
                 ELSE {LoadOK}),
        decision \in (IF "ofForceLoad" \in of /\ length = Size(State)
                      THEN Decisions(TRUE) ELSE {"no"})}

\* What a Save As to path p does in the state reached.
SaveAsTo(p) == {SaveIfNotOpen(State, p, sio) : sio \in {SaveOK} \cup SaveFaults}

\* C25: no two buffers of the registry have the same path.  In every state
\* reached, Open of a path a buffer has makes that buffer current and adds
\* no buffer, with ofForceLoad too; a Save As to a path another buffer has
\* is refused and leaves the current buffer's path, and the file, as they
\* were.
C25_OneBufferPerPath ==
    /\ PathsDistinct(buffers, length)
    /\ \A file \in Paths, of \in {{}, {"ofForceLoad"}} :
         GetDocumentByName(State, file, FALSE) > 0
         => \A S \in OpenOfOpen(file, of) :
              /\ S.length <= length
              /\ S.buffers[S.current].file = file
              /\ PathsDistinct(S.buffers, S.length)
    /\ \A p \in Paths :
         GetDocumentByName(State, p, TRUE) > 0
         => \A S \in SaveAsTo(p) :
              /\ S.ret = "false"
              /\ "AlreadyOpen" \in S.msgs
              /\ S.buffers = buffers
              /\ S.disk = disk

\* C25, its case: two buffers have files; the user has asked to save one
\* under the other's path and has been told that the file is open in
\* another buffer.
C25_SaveAsRefused ==
    /\ last.op = "SaveAs"
    /\ last.ret = "false"
    /\ "AlreadyOpen" \in last.msgs
    /\ \E i \in 1..length :
         /\ i # current
         /\ buffers[i].file # Untitled
         /\ buffers[current].file \notin {Untitled, buffers[i].file}

---------------------------------------------------------------------------
\* The encoding of a file, loaded and saved.

\* The step is a Save of the current buffer to its file, written in the
\* foreground without a failure.
SavedInForeground ==
    /\ last'.op = "Save"
    /\ last'.saveRet = "true"
    /\ ~last'.shortWrite
    /\ current' = current
    /\ buffers[current].pFileWorker = 0
    /\ buffers'[current].pFileWorker = 0
    /\ buffers[current].file # Untitled
    /\ buffers'[current].file = buffers[current].file

\* The step is a Save of the current buffer that starts storer w.
SaveStartedStorer(w) ==
    /\ last'.op = "Save"
    /\ workers[w].phase = "unused"
    /\ workers'[w].kind = "save"
    /\ current' = current
    /\ buffers'[current].pFileWorker = w

\* The step is storer w writing all of its text.
StorerWrote(w) ==
    /\ workers[w].kind = "save"
    /\ workers[w].phase = "running"
    /\ workers'[w].phase = "posted"
    /\ ~workers'[w].err
    /\ ~workers[w].cancelling

\* The step is TextRead processing the completion of loader w, which read
\* all of its file and has a buffer that owns it.
LoaderCompleted(w) ==
    /\ last'.op = "TextRead"
    /\ last'.werr = "ok"
    /\ last'.hit # 0
    /\ workers[w].kind = "load"
    /\ workers[w].phase = "posted"
    /\ workers'[w].phase # "posted"

\* C26: the encoding a save gives its writer is the one recorded for the
\* buffer when its load completed, in the foreground and in the background:
\* the mode TextRead records is the one of the file, and a save writes the
\* byte order mark before the text if and only if the buffer's mode is UTF-8,
\* so that a file loaded with the mark is saved with it and a file loaded
\* without, without.
C26_SaveKeepsByteOrderMark ==
    [][/\ \A w \in WorkerIds :
            LoaderCompleted(w)
            => buffers'[last'.hit].unicodeMode =
                   Encoding(disk[workers[w].path].bytes)
       /\ SavedInForeground
          => disk'[buffers[current].file].bytes =
                 Marked(buffers[current].unicodeMode, buffers[current].text)
       /\ \A w \in WorkerIds :
            /\ SaveStartedStorer(w)
               => workers'[w].unicodeMode = buffers[current].unicodeMode
            /\ StorerWrote(w)
               => \E t \in StorerViews(State, w) :
                      disk'[workers[w].path].bytes =
                          Marked(workers[w].unicodeMode, t)
      ]_vars

---------------------------------------------------------------------------
\* The decoder and the chunks it is given.

---------------------------------------------------------------------------
\* Requests on a buffer that owns a worker.

\* After the handler, S, the current buffer has the lifeState, the time, the
\* text and the worker it had, and no worker has been started or changed.
KeptAsItWas(S) ==
    /\ S.current = current
    /\ S.workers = workers
    /\ S.buffers[current].lifeState = buffers[current].lifeState
    /\ S.buffers[current].fileModTime = buffers[current].fileModTime
    /\ S.buffers[current].text = buffers[current].text
    /\ S.buffers[current].pFileWorker = buffers[current].pFileWorker

\* Open of file loads into the current buffer: the file is the current
\* buffer's, or no buffer has it and no slot is free.
OpenLoadsIntoCurrent(file) ==
    \/ GetDocumentByName(State, file, FALSE) = current
    \/ /\ GetDocumentByName(State, file, FALSE) = 0
       /\ length = Size(State)

\* What the requests for a load of the current buffer do in the state
\* reached: OpenCurrentFile itself, Open of a file that is to go into the
\* current buffer, and Revert where it reloads the whole file.
LoadRequests ==
    {OpenCurrentFile(State, GetFileLength(State, buffers[current].file), FALSE,
                     asynchronous, LoadOK) : asynchronous \in BOOLEAN}
    \cup {Open(State, file, of, decision, SaveOK, LoadOK) :
            file \in {f \in Paths : OpenLoadsIntoCurrent(f)},
            of \in {{}, {"ofForceLoad"}}, decision \in Decisions(TRUE)}
    \cup (IF /\ buffers[current].file # Untitled
             /\ GetFileLength(State, buffers[current].file) >= RevertShortLimit
          THEN {Revert(State, LoadOK)} ELSE {})

\* What Save of the current buffer does in the state reached.
SaveRequests == {Save(State, sfSynchronous, SaveOK) : sfSynchronous \in BOOLEAN}

\* C28: while the current buffer owns a worker, a request to load it is
\* turned away: no loader is started, and the buffer keeps its lifeState, its
\* time, its text and its worker; Save of it, the buffer having a file,
\* starts no storer, leaves the files as they are and returns true.
C28_BusyBufferTurnsRequestsAway ==
    buffers[current].pFileWorker # 0
    => /\ \A S \in LoadRequests : KeptAsItWas(S)
       /\ buffers[current].file # Untitled
          => \A S \in SaveRequests :
                /\ KeptAsItWas(S)
                /\ S.disk = disk
                /\ S.ret = "true"

---------------------------------------------------------------------------
\* Files too large to open.

\* The buffer of file made current, as Open does where some buffer has it.
OpenRotated(file) ==
    IF GetDocumentByName(State, file, FALSE) > 0
    THEN SetDocumentAt(SetVisible(State, GetDocumentByName(State, file, FALSE), TRUE),
                       GetDocumentByName(State, file, FALSE))
    ELSE State

\* Where Open of file comes to look at the file's size, after CanMakeRoom.
OpenAtSize(file, of, decision) ==
    CanMakeRoom(OpenRotated(file), "ofNoSaveIfDirty" \notin of, decision, SaveOK)

\* Open of file comes to look at the file's size: it does not end at a
\* buffer that has the file, and CanMakeRoom finds room.
OpenLooksAtSize(file, of, decision) ==
    /\ ~ /\ GetDocumentByName(State, file, FALSE) > 0
         /\ \/ "ofForceLoad" \notin of
            \/ CurrentBuffer(OpenRotated(file)).pFileWorker # 0
    /\ OpenAtSize(file, of, decision).ret = "true"

\* The file of the length Open finds is longer than max.file.size and the
\* user, asked as in lio, does not confirm, or it is longer than Open or
\* OpenCurrentFile can take.
TooLarge(fileSize, lio) ==
    \/ fileSize > IntptrMax
    \/ fileSize > MaxFileSize /\ ~lio.openAnyway
    \/ fileSize + AllocationSlack >= PtrdiffMax

\* After the handler, S, no worker has been started, the buffers are the
\* ones there were, and each has the text, the lifeState and the dirty state
\* it had.
BuffersAsTheyWere(S) ==
    /\ S.workers = workers
    /\ S.length = length
    /\ \A i \in 1..length :
          /\ S.buffers[i].file = buffers[i].file
          /\ S.buffers[i].text = buffers[i].text
          /\ S.buffers[i].lifeState = buffers[i].lifeState
          /\ S.buffers[i].isDirty = buffers[i].isDirty

\* C29: an Open turned away for the size of the file (the file is longer than
\* max.file.size and the user does not confirm, or it is longer than the hard
\* limit) starts no worker and leaves the set of open buffers and every
\* buffer's text, lifeState and dirty state as they were.
C29_SizeRejectionChangesNothing ==
    \A file \in Paths, of \in {{}, {"ofForceLoad"}},
       decision \in Decisions(TRUE), lio \in {LoadOK, LoadDeclined} :
        (/\ "ofForceLoad" \in of => GetDocumentByName(State, file, FALSE) > 0
         /\ OpenLooksAtSize(file, of, decision)
         /\ TooLarge(GetFileLength(OpenAtSize(file, of, decision), file), lio))
        => BuffersAsTheyWere(Open(State, file, of, decision, SaveOK, lio))

---------------------------------------------------------------------------
\* The order of the lifeStates.

\* The step is TextRead processing the completion of buffer i's loader.
TextReadHit(i) == last'.op = "TextRead" /\ last'.hit = i

\* The step is TextRead processing the completion of buffer i's loader, and
\* the loader reports an error.
LoadFailedAt(i) ==
    /\ TextReadHit(i)
    /\ buffers[i].pFileWorker # 0
    /\ workers[buffers[i].pFileWorker].err

\* The step keeps the buffers there are: no buffer is closed or removed.
BuffersStay == last'.op # "Close" /\ length' >= length

\* Buffer i's lifeState before and after the step follows the order empty,
\* opened, reading, readAll, opened.  One handler may take two steps of the
\* order: TextRead of the current buffer goes from reading by readAll to
\* opened, the switch to a buffer in readAll followed by a load goes by
\* opened to reading.
FollowsLifecycle(i) ==
    LET a == buffers[i].lifeState
        b == buffers'[i].lifeState
    IN \/ a = b
       \/ a = "empty" /\ b = "opened"
       \/ a = "opened" /\ b = "reading"
       \/ a = "reading" /\ b = "readAll" /\ TextReadHit(i)
       \/ a = "reading" /\ b = "opened" /\ TextReadHit(i)
       \/ a = "readAll" /\ b = "opened"
       \/ a = "readAll" /\ b = "reading"
       \/ b = "empty" /\ LoadFailedAt(i)

\* C30: every change of a buffer's lifeState follows the order empty,
\* opened, reading, readAll, opened: a buffer enters readAll only from
\* reading and only when TextRead processes its loader's completion, it
\* returns to opened only from readAll, and it becomes empty only when its
\* load failed.
C30_LifeStateFollowsOrder ==
    [][BuffersStay => \A i \in 1..length : FollowsLifecycle(i)]_vars

---------------------------------------------------------------------------
\* Save in the foreground or in the background.

\* Save of the current buffer would go to SaveBuffer: the buffer has a file,
\* is loaded and has no worker, and a worker can be created.
SaveGoesAhead ==
    /\ buffers[current].file # Untitled
    /\ ~ShouldNotSave(buffers[current])
    /\ buffers[current].pFileWorker = 0
    /\ FreeWorkerIds(State) # {}

\* Save with the flag sfSynchronous as given runs in the foreground.
SaveInForeground(sfSynchronous) ==
    \/ sfSynchronous
    \/ LengthDocument(State) <= BackgroundSaveSize
    \/ SingleBuffer

\* What Save in the foreground has left, S: no storer, and where it
\* returned true the file written and the save point set.
SaveDoneInForeground(S) ==
    /\ S.workers = workers
    /\ S.buffers[current].pFileWorker = 0
    /\ S.buffers[current].readOnly = buffers[current].readOnly
    /\ S.ret = "true"
       => /\ ~S.buffers[current].isDirty
          /\ S.disk[buffers[current].file].bytes
               = Encode(buffers[current].unicodeMode, buffers[current].text,
                        buffers[current].text)

\* What Save in the background has left, S, the system calls going as in
\* io: once the file is open for writing the buffer owns a storer for its
\* file and the document is read-only, the save point is not set; the
\* thread started, Save returns true with nothing written yet.
SaveLeftToStorer(S, io) ==
    io.fpOk
    => /\ S.buffers[current].pFileWorker # 0
       /\ S.workers[S.buffers[current].pFileWorker].kind = "save"
       /\ S.workers[S.buffers[current].pFileWorker].path = buffers[current].file
       /\ S.buffers[current].readOnly
       /\ S.buffers[current].isDirty = buffers[current].isDirty
       /\ io.threadOk
          => /\ S.ret = "true"
             /\ S.workers[S.buffers[current].pFileWorker].phase = "running"
             /\ S.disk[buffers[current].file].bytes = <<>>

---------------------------------------------------------------------------
\* The assertion in Open.

\* Where Open of file stands at its assertion, the buffer for the file being
\* current and about to be named.
OpenAtAssert(file, of, decision) ==
    OpenBuffer(OpenAtSize(file, of, decision),
               GetDocumentByName(State, file, FALSE), of)

\* Open of file, confirmed by the user where it is long, comes to its
\* assertion.
OpenComesToAssert(file, of, decision) ==
    /\ "ofForceLoad" \in of => GetDocumentByName(State, file, FALSE) > 0
    /\ OpenLooksAtSize(file, of, decision)
    /\ GetFileLength(OpenAtSize(file, of, decision), file) <= IntptrMax

\* C32: whenever Open goes on to give the current buffer the name of the
\* file, that buffer owns no worker, also where the registry is full and the
\* current buffer is taken for the file.
C32_OpenAssertionHolds ==
    \A file \in {Untitled} \cup Paths, of \in {{}, {"ofForceLoad"}},
       decision \in Decisions(TRUE) :
        OpenComesToAssert(file, of, decision)
        => CurrentBuffer(OpenAtAssert(file, of, decision)).pFileWorker = 0

---------------------------------------------------------------------------
\* The thread of a background save cannot be started.

\* Every system call of a save succeeds but the start of the thread.
NoThread == [SaveOK EXCEPT !.threadOk = FALSE]

\* C33: when the thread of a background save cannot be started, SaveBuffer
\* returns false and leaves the buffer without a worker and the document
\* writable, and a later Save of the buffer is attempted again, not turned
\* away as already being saved.
C33_FailedThreadLeavesNoWorker ==
    (SaveGoesAhead /\ ~SaveInForeground(FALSE) /\ ~buffers[current].isReadOnly)
    => /\ Save(State, FALSE, NoThread).saveRet = "false"
       /\ Save(State, FALSE, NoThread).buffers[current].pFileWorker = 0
       /\ ~Save(State, FALSE, NoThread).buffers[current].readOnly
       /\ "AlreadyBeingSaved"
             \notin Save([Save(State, FALSE, NoThread) EXCEPT !.msgs = {}],
                         FALSE, SaveOK).msgs


----------------------------------------------------------------------------
\* The completion of a save and the other buffers.

\* Storer w has completed without error or cancellation, its completion is
\* posted and its owner is in the registry.
StorerSucceeded(w) ==
    /\ workers[w].phase = "posted"
    /\ workers[w].kind = "save"
    /\ ~workers[w].err
    /\ ~workers[w].cancelling
    /\ GetDocumentByWorker(State, w) # 0

\* Where the buffer of slot j is after TextWritten for the buffer of slot i:
\* the removal of an invisible owner moves the slots after it down.
SlotAfter(i, j) == IF i > lengthVisible /\ j > i THEN j - 1 ELSE j

\* C34: TextWritten for a storer that completed successfully changes no
\* buffer but the storer's owner: every other buffer of the registry is
\* afterwards as it was, with no finish of a save scheduled, the same dirty
\* state and the same read-only state, also when the owner was invisible
\* and has been removed.
C34_TextWrittenTouchesOwnerOnly ==
    \A w \in WorkerIds :
        StorerSucceeded(w)
        => LET i == GetDocumentByWorker(State, w)
               S == TextWritten(State, w)
           IN \A j \in (1..length) \ {i} :
                  /\ S.buffers[SlotAfter(i, j)].finishSave = buffers[j].finishSave
                  /\ S.buffers[SlotAfter(i, j)].isDirty = buffers[j].isDirty
                  /\ S.buffers[SlotAfter(i, j)].readOnly = buffers[j].readOnly
                  /\ S.buffers[SlotAfter(i, j)].file = buffers[j].file

----------------------------------------------------------------------------
\* Loads come to an end.

\* Some buffer of the registry is reading file f.
Reading(f) ==
    \E i \in 1..length : buffers[i].file = f /\ buffers[i].lifeState = "reading"

\* C35: a buffer whose lifeState has become reading leaves reading again
\* (for readAll, opened or empty), given that started loader threads run to
\* their end and posted completions are processed; also when the loader
\* object could not be created.
C35_ReadingComesToAnEnd == \A f \in Paths : Reading(f) ~> ~Reading(f)

----------------------------------------------------------------------------
\* Undo collection around a load.

\* Open of file comes to its load, which is in the foreground and does not
\* keep the undo history: Open suspends undo collection for it.
OpenSuspendsUndo(file, of, decision) ==
    /\ OpenComesToAssert(file, of, decision)
    /\ "ofPreserveUndo" \notin of
    /\ ~Asynchronous(of, GetFileLength(OpenAtSize(file, of, decision), file))

\* The completion of loader w is posted and the current buffer owns w.
LoadOfCurrentCompletes(w) ==
    /\ workers[w].phase = "posted"
    /\ workers[w].kind = "load"
    /\ GetDocumentByWorker(State, w) = current

\* C36: undo collection, suspended by Open for a load that does not keep the
\* undo history, is on again when the load is over: when Open returns from a
\* load in the foreground, whether the file was read, could not be opened,
\* was rejected for its size or the buffer owned a worker already, and when
\* TextRead has completed a background load of the current buffer.
C36_UndoCollectionOnAfterLoad ==
    /\ \A file \in Paths, of \in {{}, {"ofSynchronous"}, {"ofForceLoad"}},
          decision \in Decisions(TRUE), lio \in {LoadOK} \cup LoadFaults :
           OpenSuspendsUndo(file, of, decision)
           => CurrentBuffer(Open(State, file, of, decision, SaveOK, lio)).undoCollection
    /\ \A w \in WorkerIds :
           LoadOfCurrentCompletes(w)
           => CurrentBuffer(TextRead(State, w)).undoCollection

----------------------------------------------------------------------------
\* The file's time after a save.

\* The last thing the editor did was to complete a save of the current
\* buffer with success: Save wrote the file in the foreground, or TextWritten
\* handled the completion of the buffer's storer.  Time may have passed
\* since.
SaveJustCompleted ==
    \/ /\ last.op = "Save"
       /\ last.saveRet = "true"
       /\ buffers[current].pFileWorker = 0
    \/ /\ last.op = "TextWritten"
       /\ last.werr = "ok"
       /\ last.hit = current

----------------------------------------------------------------------------
\* A save that fails again.

\* C38: every Save that fails to write a titled buffer asks "Could not save
\* file. Save under a different name?", also where an earlier Save of the
\* buffer has failed already.
C38_EveryFailedSaveAsks ==
    SaveGoesAhead
    => \A sfSynchronous \in BOOLEAN, io \in SaveFaults :
           Save(State, sfSynchronous, io).ret = "false"
           => "CouldNotSaveQuestion" \in Save(State, sfSynchronous, io).msgs

----------------------------------------------------------------------------
\* The buffer data of the scripting extension.

\* The step is the call RemoveBuffer(index).
RemoveBufferStep(index) ==
    /\ lua'.op[1] = "RemoveBuffer"
    /\ lua'.op[2] = index

\* C39: RemoveBuffer(i) leaves the script data of every buffer that had an
\* index j above i at index j - 1 and the data of the buffers below i where
\* it was, clears the slot at the old maximum index, lowers the maximum
\* index by one but not below 0 and makes the current index invalid (-1),
\* which it stays until the next InitBuffer or ActivateBuffer; after any
\* sequence of InitBuffer, ActivateBuffer and RemoveBuffer calls.
C39_RemoveBufferMovesDataDown ==
    [][/\ \A i \in 0..MaxIndex :
            RemoveBufferStep(i)
            => /\ \A j \in (i + 1)..lua.maxBufferIndex :
                      lua'.array[j - 1] = lua.array[j]
               /\ \A j \in 0..(i - 1) : lua'.array[j] = lua.array[j]
               /\ lua'.array[lua.maxBufferIndex] = Nil
               /\ lua'.maxBufferIndex =
                      IF lua.maxBufferIndex > 0 THEN lua.maxBufferIndex - 1 ELSE 0
               /\ lua'.curBufferIndex = -1
       /\ (lua.curBufferIndex = -1
             /\ lua'.op[1] \notin {"InitBuffer", "ActivateBuffer"})
          => lua'.curBufferIndex = -1]_vars

\* C39, its case: RemoveBuffer(0) has run with three buffers that all had
\* script data; the data of the two buffers behind is at indices 0 and 1,
\* index 2 is clear, the maximum index is 1 and no index is current.
C39_DataMovedDown ==
    /\ lua.op[1] = "RemoveBuffer"
    /\ lua.op[2] = 0
    /\ lua.op[3] \in 1..MaxData
    /\ lua.array[0] \in 1..MaxData
    /\ lua.array[1] \in 1..MaxData
    /\ lua.array[0] # lua.array[1]
    /\ lua.array[2] = Nil
    /\ lua.maxBufferIndex = 1
    /\ lua.curBufferIndex = -1

\* The step is the call InitBuffer(index).
InitBufferStep(index) ==
    /\ lua'.op[1] = "InitBuffer"
    /\ lua'.op[2] = index

=============================================================================
